---- MODULE Spec2Model ----
(***************************************************************************)
(* Tag Tactician: the relatedness scorer (TagIndexer) and the tag          *)
(* hierarchy builder (TagNavigationRenderer), modelled over a small vault. *)
(*                                                                         *)
(* A JavaScript string is a sequence of one-character strings, so that     *)
(* split, join, toLowerCase, startsWith and the edit distance are computed *)
(* character by character as the code computes them.                       *)
(***************************************************************************)
EXTENDS Integers, Sequences, FiniteSets, TLC

VARIABLES
    vault,          \* set of files of the vault (app.vault)
    metadataCache,  \* file -> metadata snapshot (app.metadataCache), Null when unavailable
    settings,       \* plugin.settings: the four weights
    lastCall,       \* the core operation that returned last, with its argument
    related,        \* value returned by the last computeRelatedNotes
    hierarchy,      \* value returned by the last buildTagHierarchy
    simA, simB,     \* arguments of the string similarity calls
    simFwd, simBwd, \* levenshteinSimilarity(simA, simB) and (simB, simA); -1 before the call
    noteTags,       \* argument of gatherAllPrefixSegmentsForNote
    segments,       \* value returned by gatherAllPrefixSegmentsForNote
    raised,         \* the error the last core operation threw, "none" if it returned
    filterQuery,    \* the query handed to the last filterHierarchy
    filterMode,     \* TagNavigationRenderer.filterMode
    filtered,       \* value returned by the last filterHierarchy
    display,        \* the <details> groups the last renderTagGroup created
    sortedTree,     \* value returned by the last sortHierarchy: the keys of each node's children, in order
    stat,           \* file -> TFile.stat: ctime and mtime
    activeFilePath, \* TagTacticianPlugin.activeFilePath, <<>> for null
    relatedFilterQuery, \* RelatedNotesView.filterQuery
    noteTagsMap,    \* TagIndexer.noteTagsMap: path -> tags of the note
    shown,          \* what the last renderNoteList put in the list container
    showScore,      \* RelatedNotesView.showScore
    tooltips,       \* the title of each shown item's score element, <<>> without scores
    viewOpen,       \* whether the workspace has a Related Notes leaf
    timer,          \* the `timer` of the active-leaf-change listener: a timer id, 0 for null
    pendingTimers,  \* the timers set and neither cleared nor fired: id and ms left
    quiet,          \* ms since the last active-leaf-change event, up to DebounceMs
    gap,            \* ms between the last two active-leaf-change events, up to DebounceMs
    activeView,     \* the type of the view of the active leaf: "markdown" or "other"
    workspaceFile,  \* workspace.getActiveFile(), NoFile for null
    listContainerEl, \* whether NavByTagView.listContainerEl is set
    expandAll,      \* TagNavigationRenderer.expandAll
    sortMode,       \* TagNavigationRenderer.sortMode
    openGroups,     \* the <details> groups of the list that have the attribute `open`
    fileTagData,    \* EditTagsModal.fileTagData, with each row's checkbox and proposed-tags span
    tagsToAdd,      \* EditTagsModal.tagsToAdd
    tagsToRemove,   \* EditTagsModal.tagsToRemove
    modalOpen,      \* whether the bulk tag editor is open
    submitted       \* the arguments of the calls of EditTagsModal.onSubmit so far

vars == <<vault, metadataCache, settings, lastCall, related, hierarchy,
          simA, simB, simFwd, simBwd, noteTags, segments,
          raised, filterQuery, filterMode, filtered, display, sortedTree, stat,
          activeFilePath, relatedFilterQuery, noteTagsMap, shown,
          showScore, tooltips, viewOpen,
          timer, pendingTimers, quiet, gap, activeView, workspaceFile,
          listContainerEl, expandAll, sortMode, openGroups,
          fileTagData, tagsToAdd, tagsToRemove, modalOpen, submitted>>

(***************************************************************************)
(* Bounds                                                                  *)
(***************************************************************************)
MaxStrLen == 3      \* longest string handed to levenshteinSimilarity on its own
MaxWeight == 1      \* weights range over 0..MaxWeight
MaxNoteTags == 2    \* largest tag set handed to gatherAllPrefixSegmentsForNote on its own
MaxTagDepth == 3    \* most "/"-separated segments of such a tag
MaxMinimumScore == 2 \* the minimum score setting ranges over 0..MaxMinimumScore
MaxTimers == 2      \* most timers the active-leaf-change listener may have pending
TickMs == 75        \* the step of the clock, in ms

\* the delay of the timer the active-leaf-change listener sets, in ms
DebounceMs == 150

(***************************************************************************)
(* Strings                                                                 *)
(***************************************************************************)
Max(a, b) == IF a >= b THEN a ELSE b

\* String.prototype.toLowerCase on one character
LowerChar(c) ==
    CASE c = "A" -> "a" [] c = "B" -> "b" [] c = "O" -> "o" [] c = "P" -> "p"
      [] c = "S" -> "s" [] c = "W" -> "w" [] OTHER -> c

\* String.prototype.toLowerCase
ToLowerCase(s) == [i \in 1..Len(s) |-> LowerChar(s[i])]

\* String.prototype.startsWith(c) for a one-character c
StartsWith(s, c) == Len(s) >= 1 /\ s[1] = c

\* String.prototype.substring(n)
Substring(s, n) == SubSeq(s, n + 1, Len(s))

\* String.prototype.split(sep) for a one-character separator: the pieces
\* between separators, empty pieces included
RECURSIVE SplitFrom(_, _, _, _)
SplitFrom(s, sep, i, cur) ==
    IF i > Len(s) THEN <<cur>>
    ELSE IF s[i] = sep THEN <<cur>> \o SplitFrom(s, sep, i + 1, <<>>)
    ELSE SplitFrom(s, sep, i + 1, Append(cur, s[i]))

Split(s, sep) == SplitFrom(s, sep, 1, <<>>)

\* Array.prototype.join(sep)
RECURSIVE Join(_, _)
Join(parts, sep) ==
    IF Len(parts) = 0 THEN <<>>
    ELSE IF Len(parts) = 1 THEN parts[1]
    ELSE parts[1] \o <<sep>> \o Join(Tail(parts), sep)

\* String.prototype.split(/[, ]+/): the pieces between maximal runs of
\* commas and spaces; a leading or trailing run leaves an empty piece
RECURSIVE SplitCommaSpaceFrom(_, _, _, _)
SplitCommaSpaceFrom(s, i, cur, inRun) ==
    IF i > Len(s) THEN <<cur>>
    ELSE IF s[i] \in {",", " "}
         THEN IF inRun THEN SplitCommaSpaceFrom(s, i + 1, cur, TRUE)
              ELSE <<cur>> \o SplitCommaSpaceFrom(s, i + 1, <<>>, TRUE)
    ELSE SplitCommaSpaceFrom(s, i + 1, Append(cur, s[i]), FALSE)

SplitCommaSpace(s) == SplitCommaSpaceFrom(s, 1, <<>>, FALSE)

\* The elements of a sequence
Range(seq) == {seq[i] : i \in 1..Len(seq)}

\* Set.prototype.add on an insertion-ordered set
SetAdd(seq, x) == IF x \in Range(seq) THEN seq ELSE Append(seq, x)

(***************************************************************************)
(* The vault: files and metadata snapshots                                 *)
(***************************************************************************)
\* TFile: basename and parent.path ("/" is the vault root)
AllFiles ==
    { [basename |-> <<"A">>,      parent |-> <<"/">>],
      [basename |-> <<"a", "b">>, parent |-> <<"d">>],
      [basename |-> <<"b">>,      parent |-> <<"d">>] }

\* the files of the vaults the tag navigation is modelled over
NavFiles == AllFiles \cup { [basename |-> <<"c", "l", "i">>, parent |-> <<"/">>] }

\* TFile.path: a file of the root folder has no folder part
FilePath(file) ==
    IF file.parent = <<"/">> THEN file.basename \o <<".", "m", "d">>
    ELSE file.parent \o <<"/">> \o file.basename \o <<".", "m", "d">>

\* the order in which vault.getMarkdownFiles lists the files
RECURSIVE SeqOfSet(_)
SeqOfSet(S) ==
    IF S = {} THEN <<>>
    ELSE LET x == CHOOSE y \in S : \A z \in S : Len(FilePath(y)) <= Len(FilePath(z))
         IN <<x>> \o SeqOfSet(S \ {x})

FileOrder == SeqOfSet(NavFiles)

\* frontmatter.tags: absent, a list (entries may be non-strings) or a string
FmNone == [kind |-> "none", arr |-> <<>>, str |-> <<>>]
FmArray(a) == [kind |-> "array", arr |-> a, str |-> <<>>]
FmString(s) == [kind |-> "string", arr |-> <<>>, str |-> s]
StrEntry(s) == [isString |-> TRUE, val |-> s]
NonStrEntry == [isString |-> FALSE, val |-> <<>>]

\* CachedMetadata: inline tags (cache.tags[].tag), frontmatter.tags, cache.links[].link
Snap(tags, fm, links) == [avail |-> TRUE, tags |-> tags, fmTags |-> fm, links |-> links]

\* no file: what getActiveFile() and MarkdownView.file are when null
NoFile == [basename |-> <<>>, parent |-> <<>>]

\* getFileCache returned null
Null == [avail |-> FALSE, tags |-> <<>>, fmTags |-> FmNone, links |-> <<>>]

\* the snapshots a file of the vault may have
Snapshots ==
    { Snap(<<>>, FmNone, <<>>),
      Snap(<< <<"#", "x">> >>, FmNone, << <<"a", "b">> >>),
      Snap(<< <<"#", "x", "/", "y">> >>, FmArray(<<StrEntry(<<"x">>), NonStrEntry>>),
           << <<"A">> >>),
      Snap(<<>>, FmString(<<"x", "/", "y", ",", " ", "z">>), << <<"b">>, <<"a", "b">> >>) }

\* a snapshot whose only tags are the given inline tags
Tagged(tags) == Snap(tags, FmNone, <<>>)

\* the members every object literal inherits from Object.prototype
ObjectPrototypeKeys ==
    { <<"c", "o", "n", "s", "t", "r", "u", "c", "t", "o", "r">>,
      <<"_", "_", "p", "r", "o", "t", "o", "_", "_">>,
      <<"t", "o", "S", "t", "r", "i", "n", "g">>,
      <<"v", "a", "l", "u", "e", "O", "f">>,
      <<"h", "a", "s", "O", "w", "n", "P", "r", "o", "p", "e", "r", "t", "y">> }

\* the snapshots of the vaults the hierarchy builder is modelled over: a tag
\* may be any string, the name of a member of Object.prototype included
BuilderSnapshots ==
    Snapshots \cup { Tagged(<< <<"#">> \o <<"c", "o", "n", "s", "t", "r", "u", "c", "t", "o", "r">> >>) }

\* the snapshots of the vaults the rendering is modelled over
RenderSnapshots ==
    { Tagged(<< <<"#", "w", "o", "r", "k", "/", "a", "c", "m", "e">>,
                <<"#", "w", "o", "r", "k", "/", "b", "e", "t", "a">> >>),
      Tagged(<< <<"#", "w", "o", "r", "k", "/", "a", "c", "m", "e">> >>),
      Tagged(<< <<"#", "x", "/", "y", "/", "z">> >>),
      Snap(<< <<"#", "x", "/", "y">> >>, FmArray(<<StrEntry(<<"x">>), NonStrEntry>>),
           << <<"A">> >>) }

\* the snapshots of the vaults the filter is modelled over
FilterSnapshots ==
    { Tagged(<< <<"#", "p", "r", "o", "j", "/", "w", "e", "b">> >>),
      Tagged(<< <<"#", "p", "r", "o", "j", "/", "c", "l", "i">> >>),
      Snap(<< <<"#", "x", "/", "y">> >>, FmArray(<<StrEntry(<<"x">>), NonStrEntry>>),
           << <<"A">> >>),
      Tagged(<< <<"#", "a", "/", "y">>, <<"#", "x">> >>) }

\* the snapshots of the vaults the sorter is modelled over
SortSnapshots ==
    { Tagged(<< <<"#", "y", "/", "1", "0">> >>),
      Tagged(<< <<"#", "y", "/", "9">>, <<"#", "B">> >>),
      Tagged(<< <<"#", "a">>, <<"#", "B", "/", "c">> >>),
      Tagged(<< <<"#", "y", "/", "b">>, <<"#", "y", "/", "A">> >>) }

\* the creation and modification times a file may have
StatValues == { [ctime |-> 1, mtime |-> 3], [ctime |-> 2, mtime |-> 2] }

\* the queries handed to filterHierarchy
FilterQueries ==
    { <<>>, <<"c", "l", "i">>, <<"x">>, <<"a">>, <<"W">> }

FilterModes == {"TagsAndFiles", "TagsOnly", "FilesOnly"}

\* the frontmatter tags the files of the bulk tag editor may have
CurrentTagLists == { <<>>, << <<"x">> >>, << <<"y">>, <<"#", "x">> >> }

\* what is typed into the inputs "Add Tags" and "Remove Tags"
AddInputs == { <<>>, <<"z">>, <<"z", ",", " ", "B">> }
RemoveInputs == { <<>>, <<"x">>, <<"z", " ", "y">> }

\* the snapshots of the vaults the tag navigation list is modelled over
ListSnapshots ==
    { Tagged(<< <<"#", "w", "o", "r", "k", "/", "a", "c", "m", "e">>,
                <<"#", "w", "o", "r", "k", "/", "b", "e", "t", "a">> >>),
      Tagged(<< <<"#", "w", "o", "r", "k", "/", "a", "c", "m", "e">> >>),
      Snap(<<>>, FmArray(<<StrEntry(<<>>)>>), <<>>) }

\* what is typed into the filter input of the tag navigation
ListQueries == { <<>>, <<"A", "c", "m", "e">> }

\* the sort modes chosen in the sort menu of the tag navigation
ListSortModes == {"alphabetically-descending", "file-count-descending"}

\* what is typed into the filter input of the Related Notes view
FilterInputs == { <<"x">>, <<"B", " ">> }

\* the snapshots of the vault the Related Notes view is modelled over
ViewSnapshots == { Tagged(<<>>), Tagged(<< <<"#", "x">> >>) }

\* the paths handed to computeRelatedNotes: every file's path and a folder's path
FocusPaths == {FilePath(f) : f \in AllFiles} \cup {<<"d">>}

RECURSIVE GCD(_, _)
GCD(a, b) == IF b = 0 THEN a ELSE GCD(b, a % b)

RECURSIVE LCMUpTo(_)
LCMUpTo(n) == IF n <= 1 THEN 1 ELSE LET l == LCMUpTo(n - 1) IN (l * n) \div GCD(l, n)

\* the longest string the model hands to levenshteinSimilarity
LongestString ==
    LET longest == CHOOSE p \in FocusPaths : \A q \in FocusPaths : Len(p) >= Len(q)
    IN Max(MaxStrLen, Len(longest))

\* Similarities and scores are fractions with denominators up to
\* LongestString; they are held exactly as integer multiples of 1/Scale.
Scale == LCMUpTo(LongestString)

(***************************************************************************)
(* String similarity (TagIndexer.ts)                                       *)
(***************************************************************************)
Min3(a, b, c) ==
    IF a <= b /\ a <= c THEN a ELSE IF b <= c THEN b ELSE c

\* mutation: a substitution costs nothing
RECURSIVE LevRowFill_FreeSubstitution(_, _, _, _)
LevRowFill_FreeSubstitution(prev, c, str2, row) ==
    IF Len(row) = Len(str2) + 1 THEN row
    ELSE LET j == Len(row)
             v == Min3(prev[j + 1] + 1, row[j] + 1, prev[j])
         IN LevRowFill_FreeSubstitution(prev, c, str2, Append(row, v))

\* inner loop of levenshteinDistance: row i of dp, filled left to right from
\* row i-1 (prev); row[k] holds dp[i][k-1]
RECURSIVE LevRowFill(_, _, _, _)
LevRowFill(prev, c, str2, row) ==
    IF Len(row) = Len(str2) + 1 THEN row
    ELSE LET j == Len(row)
             cost == IF c = str2[j] THEN 0 ELSE 1
             v == Min3(prev[j + 1] + 1,     \* deletion
                       row[j] + 1,          \* insertion
                       prev[j] + cost)      \* substitution
         IN LevRowFill(prev, c, str2, Append(row, v))

\* outer loop of levenshteinDistance
RECURSIVE LevRows(_, _, _, _)
LevRows(str1, str2, i, prev) ==
    IF i > Len(str1) THEN prev
    ELSE LevRows(str1, str2, i + 1, LevRowFill(prev, str1[i], str2, <<i>>))

levenshteinDistance(str1, str2) ==
    LET row0 == [k \in 1..(Len(str2) + 1) |-> k - 1]
    IN LevRows(str1, str2, 1, row0)[Len(str2) + 1]

\* mutation: the first string is taken as the longer one without comparing lengths
levenshteinSimilarity_NoSwap(s1, s2) ==
    IF Len(s1) = 0 THEN Scale
    ELSE ((Len(s1) - levenshteinDistance(s1, s2)) * Scale) \div Len(s1)

\* levenshteinSimilarity, in units of 1/Scale
levenshteinSimilarity(s1, s2) ==
    LET swap == Len(s1) < Len(s2)
        longer == IF swap THEN s2 ELSE s1
        shorter == IF swap THEN s1 ELSE s2
        longerLength == Len(longer)
    IN IF longerLength = 0 THEN Scale
       ELSE ((longerLength - levenshteinDistance(longer, shorter)) * Scale) \div longerLength

(***************************************************************************)
(* Metadata extractor and tag prefix expander (TagIndexer.ts)              *)
(***************************************************************************)
\* first loop of gatherTagsFromCache: the inline tags, leading "#" stripped
RECURSIVE AddInlineTags(_, _)
AddInlineTags(tags, inline) ==
    IF inline = <<>> THEN tags
    ELSE LET rawTag == Head(inline)
             t == IF StartsWith(rawTag, "#") THEN Substring(rawTag, 1) ELSE rawTag
         IN AddInlineTags(SetAdd(tags, t), Tail(inline))

\* fmTags.forEach(tag => typeof tag === "string" && tags.add(tag))
RECURSIVE AddArrayTags(_, _)
AddArrayTags(tags, arr) ==
    IF arr = <<>> THEN tags
    ELSE AddArrayTags(IF Head(arr).isString THEN SetAdd(tags, Head(arr).val) ELSE tags,
                      Tail(arr))

\* fmTags.split(/[, ]+/).forEach(t => t && tags.add(t))
RECURSIVE AddSplitTags(_, _)
AddSplitTags(tags, pieces) ==
    IF pieces = <<>> THEN tags
    ELSE AddSplitTags(IF Head(pieces) # <<>> THEN SetAdd(tags, Head(pieces)) ELSE tags,
                      Tail(pieces))

\* gatherTagsFromCache: the tags in insertion order, without duplicates
gatherTagsFromCache(cache) ==
    LET inlineTags == AddInlineTags(<<>>, cache.tags)
        fm == cache.fmTags
        \* `cache.frontmatter && cache.frontmatter.tags`: "" is falsy, [] is not
        truthy == fm.kind = "array" \/ (fm.kind = "string" /\ fm.str # <<>>)
    IN IF ~truthy THEN inlineTags
       ELSE IF fm.kind = "array" THEN AddArrayTags(inlineTags, fm.arr)
       ELSE AddSplitTags(inlineTags, SplitCommaSpace(fm.str))

\* mutation: the loop starts at the second segment, losing the root prefix
expandTagIntoPrefixes_FromSecond(fullTag) ==
    LET segs == Split(fullTag, "/")
    IN [i \in 1..(Len(segs) - 1) |-> Join(SubSeq(segs, 1, i + 1), "/")]

\* expandTagIntoPrefixes: the prefixes of the "/"-split tag, root first
expandTagIntoPrefixes(fullTag) ==
    LET segs == Split(fullTag, "/")
    IN [i \in 1..Len(segs) |-> Join(SubSeq(segs, 1, i), "/")]

\* gatherAllPrefixSegmentsForNote: noteTags is a set of tags
gatherAllPrefixSegmentsForNote(tagSet) ==
    UNION {Range(expandTagIntoPrefixes(tag)) : tag \in tagSet}

(***************************************************************************)
(* Relatedness scorer (TagIndexer.computeRelatedNotes)                     *)
(***************************************************************************)
\* vault.getMarkdownFiles()
getMarkdownFiles(files) == SelectSeq(FileOrder, LAMBDA f : f \in files)

\* mutation: the current note is not recognised among the candidates
IsCurrentNote_Never(candidatePath, currentNotePath) == FALSE

\* `candidatePath === currentNotePath`: the candidate is the current note
IsCurrentNote(candidatePath, currentNotePath) == candidatePath = currentNotePath

\* mutation: a candidate without snapshot is scored like one with an empty snapshot
CandidateSkipped_Never(candCache) == FALSE

\* `if (!candCache) continue`
CandidateSkipped(candCache) == ~candCache.avail

\* the loop counting the candidate's segments that the current note has
PrefixOverlapScore(currentNoteSegments, candidateSegments) ==
    Cardinality({seg \in candidateSegments : seg \in currentNoteSegments})

\* mutation: the titles are compared as they are written
TitleSimScore_CaseSensitive(file, candidateFile) ==
    levenshteinSimilarity(file.basename, candidateFile.basename)

\* title similarity of the two lowercased basenames
TitleSimScore(file, candidateFile) ==
    levenshteinSimilarity(ToLowerCase(file.basename), ToLowerCase(candidateFile.basename))

\* mutation: the paths are compared wherever the two files are
PathSimScore_AnyFolder(file, candidateFile) ==
    levenshteinSimilarity(FilePath(file), FilePath(candidateFile))

\* path similarity, only when neither file is in the root folder
PathSimScore(file, candidateFile) ==
    IF candidateFile.parent # <<"/">> /\ file.parent # <<"/">>
    THEN levenshteinSimilarity(FilePath(file), FilePath(candidateFile))
    ELSE 0

\* `cache.links?.map(l => l.link).includes(basename)`
LinksInclude(cache, basename) == \E i \in 1..Len(cache.links) : cache.links[i] = basename

\* mutation: the second test is the else-branch of the first
LinkScore_EitherWay(file, currCache, candidateFile, candCache) ==
    IF LinksInclude(candCache, file.basename) THEN 1
    ELSE IF LinksInclude(currCache, candidateFile.basename) THEN 1
    ELSE 0

\* linkScore: one for each direction in which a link names the other's basename
LinkScore(file, currCache, candidateFile, candCache) ==
    (IF LinksInclude(candCache, file.basename) THEN 1 ELSE 0)
    + (IF LinksInclude(currCache, candidateFile.basename) THEN 1 ELSE 0)

\* totalScore, in units of 1/Scale
TotalScore(w, prefixOverlapScore, titleSimScore, pathSimScore, linkScore) ==
    0
    + (w.weightTagSimilarity * prefixOverlapScore * Scale)
    + (w.weightTitleSimilarity * titleSimScore)
    + (w.weightPathSimilarity * pathSimScore)
    + (w.weightLinkInterconnections * linkScore * Scale)

\* mutation: every scored candidate is pushed
IsPushed_Always(totalScore) == TRUE

\* `if (totalScore > 0)`: the candidate is pushed onto the results
IsPushed(totalScore) == totalScore > 0

\* one candidate's score against the current note
CandidateScore(w, file, currCache, candidateFile, candCache) ==
    LET currentNoteSegments == gatherAllPrefixSegmentsForNote(Range(gatherTagsFromCache(currCache)))
        candidateSegments == gatherAllPrefixSegmentsForNote(Range(gatherTagsFromCache(candCache)))
    IN TotalScore(w,
                  PrefixOverlapScore(currentNoteSegments, candidateSegments),
                  TitleSimScore(file, candidateFile),
                  PathSimScore(file, candidateFile),
                  LinkScore(file, currCache, candidateFile, candCache))

\* the loop over allFiles
RECURSIVE ScoreCandidates(_, _, _, _, _, _)
ScoreCandidates(w, cache, file, currentNotePath, allFiles, results) ==
    IF allFiles = <<>> THEN results
    ELSE LET candidateFile == Head(allFiles)
             candidatePath == FilePath(candidateFile)
             candCache == cache[candidateFile]
             totalScore == CandidateScore(w, file, cache[file], candidateFile, candCache)
             pushed ==
                 IF IsCurrentNote(candidatePath, currentNotePath) THEN results
                 ELSE IF CandidateSkipped(candCache) THEN results
                 ELSE IF IsPushed(totalScore)
                      THEN Append(results, [notePath |-> candidatePath, score |-> totalScore])
                 ELSE results
         IN ScoreCandidates(w, cache, file, currentNotePath, Tail(allFiles), pushed)

\* mutation: the comparator sorts ascending
CompareScore_Ascending(a, b) == a.score - b.score

\* the comparator of results.sort: (a, b) => b.score - a.score
CompareScore(a, b) == b.score - a.score

\* Array.prototype.sort is stable: x goes after every element that the
\* comparator does not put behind it
RECURSIVE SortedInsert(_, _)
SortedInsert(sorted, x) ==
    IF sorted = <<>> THEN <<x>>
    ELSE IF CompareScore(Head(sorted), x) <= 0
         THEN <<Head(sorted)>> \o SortedInsert(Tail(sorted), x)
    ELSE <<x>> \o sorted

RECURSIVE SortResults(_, _)
SortResults(results, sorted) ==
    IF results = <<>> THEN sorted
    ELSE SortResults(Tail(results), SortedInsert(sorted, Head(results)))

\* computeRelatedNotes over the files `files` with snapshots `cache` and weights `w`
RelatedNotesOf(files, cache, w, currentNotePath) ==
    LET found == {f \in files : FilePath(f) = currentNotePath}
    IN IF found = {} THEN <<>>                 \* not a TFile
       ELSE LET file == CHOOSE f \in found : TRUE
            IN IF ~cache[file].avail THEN <<>> \* no metadata for the current note
               ELSE SortResults(ScoreCandidates(w, cache, file, currentNotePath,
                                                getMarkdownFiles(files), <<>>), <<>>)

computeRelatedNotes(currentNotePath) ==
    RelatedNotesOf(vault, metadataCache, settings, currentNotePath)

(***************************************************************************)
(* Tag hierarchy builder (TagNavigationRenderer)                           *)
(*                                                                         *)
(* A TagHierarchy is held as a function from the key path of each node     *)
(* (the sequence of keys from the root) to the node's `files`; the         *)
(* children of a node are the nodes whose key path extends its own by one. *)
(***************************************************************************)
EmptyHierarchy == [p \in {} |-> {}]

Untagged == <<"u", "n", "t", "a", "g", "g", "e", "d">>

\* `if (!hierarchy[key]) hierarchy[key] = {files: new Set(), children: {}}`
EnsureNode(h, node) == IF node \in DOMAIN h THEN h ELSE h @@ (node :> {})

\* the value of an operation that threw a TypeError instead of returning; no
\* tree equals it, a node's key path having at least one key
TypeError == (<<>> :> {})

\* `hierarchy[head]` of an object literal that has no node `head` of its own
\* is the member of that name it inherits from Object.prototype, if any; that
\* member is truthy and has neither `files` nor `children`
Inherited(head) == head \in ObjectPrototypeKeys

\* mutation: the file is added to every node on the way to the leaf
RECURSIVE addToHierarchy_EveryLevel(_, _, _, _)
addToHierarchy_EveryLevel(h, at, segs, file) ==
    LET node == Append(at, Head(segs))
        h1 == IF node \in DOMAIN h THEN h ELSE h @@ (node :> {})
        h2 == [h1 EXCEPT ![node] = @ \cup {file}]
    IN IF Inherited(Head(segs)) THEN TypeError
       ELSE IF Len(Tail(segs)) = 0 THEN h2
       ELSE addToHierarchy_EveryLevel(h2, node, Tail(segs), file)

\* addToHierarchy, `at` being the key path of the node whose children
\* `hierarchy` is. With `head` inherited no node is made, and
\* `hierarchy[head].files.add` as well as the recursion into
\* `hierarchy[head].children` (undefined) throw.
RECURSIVE addToHierarchy(_, _, _, _)
addToHierarchy(h, at, segs, file) ==
    LET head == Head(segs)
        rest == Tail(segs)
        node == Append(at, head)
        h1 == EnsureNode(h, node)
    IN IF Inherited(head) THEN TypeError
       ELSE IF Len(rest) = 0 THEN [h1 EXCEPT ![node] = @ \cup {file}]
       ELSE addToHierarchy(h1, node, rest, file)

\* mutation: the "untagged" bucket is made anew for every file
AddUntagged_Anew(h, file) ==
    [p \in DOMAIN h \cup {<<Untagged>>} |-> IF p = <<Untagged>> THEN {file} ELSE h[p]]

\* hierarchy["untagged"].files.add(file)
AddUntagged(h, file) ==
    LET h1 == EnsureNode(h, <<Untagged>>)
    IN [h1 EXCEPT ![<<Untagged>>] = @ \cup {file}]

\* mutation: only the first tag of a file is inserted
AddTags_FirstOnly(h, tags, file) ==
    IF h = TypeError \/ tags = <<>> THEN h
    ELSE addToHierarchy(h, <<>>, Split(Head(tags), "/"), file)

\* `for (const tag of tags) this.addToHierarchy(hierarchy, tag.split("/"), file)`
RECURSIVE AddTags(_, _, _)
AddTags(h, tags, file) ==
    IF h = TypeError \/ tags = <<>> THEN h
    ELSE AddTags(addToHierarchy(h, <<>>, Split(Head(tags), "/"), file), Tail(tags), file)

\* the body of the loop of buildTagHierarchy for one file
AddFile(h, cache, file) ==
    LET fileCache == cache[file]
    IN IF fileCache.avail
       THEN LET tags == gatherTagsFromCache(fileCache)
            IN IF Len(tags) = 0 THEN AddUntagged(h, file)
               ELSE AddTags(h, tags, file)
       ELSE AddUntagged(h, file)

RECURSIVE BuildFrom(_, _, _)
BuildFrom(h, cache, allFiles) ==
    IF h = TypeError \/ allFiles = <<>> THEN h
    ELSE BuildFrom(AddFile(h, cache, Head(allFiles)), cache, Tail(allFiles))

buildTagHierarchy == BuildFrom(EmptyHierarchy, metadataCache, getMarkdownFiles(vault))

\* Object.values(node.children): the key paths of the children of a node
ChildrenOf(h, node) ==
    {p \in DOMAIN h : Len(p) = Len(node) + 1 /\ SubSeq(p, 1, Len(node)) = node}

\* getTotalFileCountForNode: recursion over the children; `nodes` are the
\* children still to be added to `count`
RECURSIVE TotalOver(_, _, _)
TotalOver(h, nodes, count) ==
    IF nodes = {} THEN count
    ELSE LET child == CHOOSE n \in nodes : TRUE
         IN TotalOver(h, nodes \ {child},
                      count + TotalOver(h, ChildrenOf(h, child), Cardinality(h[child])))

getTotalFileCountForNode(h, node) == TotalOver(h, ChildrenOf(h, node), Cardinality(h[node]))

(***************************************************************************)
(* sortHierarchy (TagNavigationRenderer)                                   *)
(*                                                                         *)
(* A TagHierarchy is an object literal, and the order of its entries is    *)
(* the order of its own property keys: the keys that are array indices in  *)
(* ascending numeric order, then the other keys in the order in which they *)
(* were created. A sorted tree is held as the function from each node (and *)
(* <<>> for the top level) to the keys of its children in that order.      *)
(***************************************************************************)
\* the digits and letters in the order of the collation
CollationOrder ==
    <<"0", "1", "2", "3", "4", "5", "6", "7", "8", "9",
      "a", "b", "c", "d", "e", "f", "g", "h", "i", "j", "k", "l", "m",
      "n", "o", "p", "q", "r", "s", "t", "u", "v", "w", "x", "y", "z">>

\* the weight of a character under {sensitivity: "base"}: letter case apart
PrimaryWeight(c) ==
    CHOOSE i \in 1..Len(CollationOrder) : CollationOrder[i] = LowerChar(c)

\* a.localeCompare(b, undefined, {sensitivity: "base"}), for strings of
\* digits and letters
RECURSIVE localeCompare(_, _)
localeCompare(a, b) ==
    IF a = <<>> /\ b = <<>> THEN 0
    ELSE IF a = <<>> THEN -1
    ELSE IF b = <<>> THEN 1
    ELSE IF PrimaryWeight(Head(a)) = PrimaryWeight(Head(b))
         THEN localeCompare(Tail(a), Tail(b))
    ELSE IF PrimaryWeight(Head(a)) < PrimaryWeight(Head(b)) THEN -1 ELSE 1

DigitValue(c) ==
    CASE c = "0" -> 0 [] c = "1" -> 1 [] c = "2" -> 2 [] c = "3" -> 3 [] c = "4" -> 4
      [] c = "5" -> 5 [] c = "6" -> 6 [] c = "7" -> 7 [] c = "8" -> 8 [] c = "9" -> 9
      [] OTHER -> -1

\* the key is an array index: the canonical decimal form of an integer
\* below 2^32 - 1 (the keys here are short)
IsArrayIndex(key) ==
    /\ key # <<>>
    /\ \A i \in 1..Len(key) : DigitValue(key[i]) >= 0
    /\ Len(key) = 1 \/ key[1] # "0"

RECURSIVE NumericValue(_)
NumericValue(key) ==
    IF key = <<>> THEN 0
    ELSE NumericValue(SubSeq(key, 1, Len(key) - 1)) * 10 + DigitValue(key[Len(key)])

RECURSIVE AscendingIndices(_)
AscendingIndices(keys) ==
    IF keys = {} THEN <<>>
    ELSE LET k == CHOOSE x \in keys : \A y \in keys : NumericValue(x) <= NumericValue(y)
         IN <<k>> \o AscendingIndices(keys \ {k})

\* the own keys of an object whose keys were created in the order `created`
OwnPropertyKeys(created) ==
    AscendingIndices({k \in Range(created) : IsArrayIndex(k)})
        \o SelectSeq(created, LAMBDA k : ~IsArrayIndex(k))

\* the nodes tag.split("/") leads addToHierarchy through
PrefixPaths(segs) == [i \in 1..Len(segs) |-> SubSeq(segs, 1, i)]

RECURSIVE TagPaths(_)
TagPaths(tags) ==
    IF tags = <<>> THEN <<>>
    ELSE PrefixPaths(Split(Head(tags), "/")) \o TagPaths(Tail(tags))

\* the nodes the loop of buildTagHierarchy visits for one file
NodesOfFile(cache, file) ==
    LET tags == gatherTagsFromCache(cache[file])
    IN IF cache[file].avail /\ Len(tags) > 0 THEN TagPaths(tags) ELSE << <<Untagged>> >>

RECURSIVE AddEach(_, _)
AddEach(created, nodes) ==
    IF nodes = <<>> THEN created
    ELSE AddEach(SetAdd(created, Head(nodes)), Tail(nodes))

RECURSIVE CreatedNodes(_, _, _)
CreatedNodes(cache, allFiles, created) ==
    IF allFiles = <<>> THEN created
    ELSE CreatedNodes(cache, Tail(allFiles), AddEach(created, NodesOfFile(cache, Head(allFiles))))

\* the nodes of the tree of buildTagHierarchy in the order of their creation
CreationOrder == CreatedNodes(metadataCache, getMarkdownFiles(vault), <<>>)

\* Object.entries(hierarchy) for the children of the node `at` of h
ObjectEntries(h, at) ==
    LET created == SelectSeq(CreationOrder, LAMBDA p : p \in ChildrenOf(h, at))
        keys == OwnPropertyKeys([i \in 1..Len(created) |-> created[i][Len(created[i])]])
    IN [i \in 1..Len(keys) |-> [key |-> keys[i], node |-> Append(at, keys[i])]]

SortModes ==
    { "alphabetically-descending", "file-count-descending",
      "created-time-descending", "created-time-ascending",
      "modified-time-descending", "modified-time-ascending" }

SetMax(S) == CHOOSE x \in S : \A y \in S : y <= x
SetMin(S) == CHOOSE x \in S : \A y \in S : x <= y

\* the comparator of mode "file-count-descending"
CompareFileCount(h, a, b) ==
    LET countA == getTotalFileCountForNode(h, a.node)
        countB == getTotalFileCountForNode(h, b.node)
    IN IF countB = countA THEN localeCompare(a.key, b.key) ELSE countB - countA

\* getNewestCtime
getNewestCtime(mode, files) ==
    IF files = {} THEN 0
    ELSE IF mode = "created-time-descending"
         THEN SetMax({stat[f].ctime : f \in files})
    ELSE SetMin({stat[f].ctime : f \in files})

\* the comparator of the modes "created-time-descending" and "created-time-ascending"
CompareCreatedTime(h, mode, a, b) ==
    LET filesA == h[a.node]
        filesB == h[b.node]
        ctimeA == getNewestCtime(mode, filesA)
        ctimeB == getNewestCtime(mode, filesB)
    IN IF filesA = {} /\ filesB = {} THEN localeCompare(a.key, b.key)
       ELSE IF ctimeA = ctimeB THEN localeCompare(a.key, b.key)
       ELSE IF mode = "created-time-descending" THEN ctimeB - ctimeA
       ELSE ctimeA - ctimeB

\* getNewestMtime
getNewestMtime(mode, files) ==
    IF files = {} THEN 0
    ELSE IF mode = "modified-time-descending"
         THEN SetMax({stat[f].mtime : f \in files})
    ELSE SetMin({stat[f].mtime : f \in files})

\* the comparator of the modes "modified-time-descending" and "modified-time-ascending"
CompareModifiedTime(h, mode, a, b) ==
    LET filesA == h[a.node]
        filesB == h[b.node]
        mtimeA == getNewestMtime(mode, filesA)
        mtimeB == getNewestMtime(mode, filesB)
    IN IF filesA = {} /\ filesB = {} THEN localeCompare(a.key, b.key)
       ELSE IF mtimeA = mtimeB THEN localeCompare(a.key, b.key)
       ELSE IF mode = "modified-time-descending" THEN mtimeB - mtimeA
       ELSE mtimeA - mtimeB

\* `switch (mode)`: the comparator handed to sortedEntries.sort
CompareEntries(h, mode, a, b) ==
    CASE mode = "alphabetically-descending" -> localeCompare(a.key, b.key)
      [] mode = "file-count-descending" -> CompareFileCount(h, a, b)
      [] mode \in {"created-time-descending", "created-time-ascending"} ->
           CompareCreatedTime(h, mode, a, b)
      [] mode \in {"modified-time-descending", "modified-time-ascending"} ->
           CompareModifiedTime(h, mode, a, b)

\* Array.prototype.sort is stable
RECURSIVE InsertEntry(_, _, _, _)
InsertEntry(h, mode, sortedEntries, x) ==
    IF sortedEntries = <<>> THEN <<x>>
    ELSE IF CompareEntries(h, mode, Head(sortedEntries), x) <= 0
         THEN <<Head(sortedEntries)>> \o InsertEntry(h, mode, Tail(sortedEntries), x)
    ELSE <<x>> \o sortedEntries

RECURSIVE SortEntries(_, _, _, _)
SortEntries(h, mode, entries, sortedEntries) ==
    IF entries = <<>> THEN sortedEntries
    ELSE SortEntries(h, mode, Tail(entries), InsertEntry(h, mode, sortedEntries, Head(entries)))

\* sortHierarchy(hierarchy, mode): at every level the entries are sorted and
\* set, in that order, as the properties of a new object literal
sortHierarchy(h, mode) ==
    [at \in DOMAIN h \cup {<<>>} |->
        LET sortedEntries == SortEntries(h, mode, ObjectEntries(h, at), <<>>)
        IN OwnPropertyKeys([i \in 1..Len(sortedEntries) |-> sortedEntries[i].key])]

(***************************************************************************)
(* filterHierarchy (TagNavigationRenderer)                                 *)
(***************************************************************************)
\* String.prototype.includes
Contains(s, sub) ==
    \E i \in 0..(Len(s) - Len(sub)) : SubSeq(s, i + 1, i + Len(sub)) = sub

\* mutation: the tree is returned without what is below its first level
Unfiltered_FirstLevel(h, at) ==
    [p \in {q \in DOMAIN h : Len(q) = Len(at) + 1 /\ SubSeq(q, 1, Len(at)) = at} |-> h[p]]

\* `return hierarchy`: the nodes below `at`, as they are
Unfiltered(h, at) ==
    [p \in {q \in DOMAIN h : Len(q) > Len(at) /\ SubSeq(q, 1, Len(at)) = at} |-> h[p]]

\* includeNode and filesToShow after the switch
Verdict(includeNode, filesToShow) ==
    [includeNode |-> includeNode, filesToShow |-> filesToShow]

\* mutation: the match of an enclosing node's key counts for nothing
TagsAndFilesCase_OwnKeyOnly(actualTagNameMatchesQuery, isAncestorMatched, files, matchingFiles, hasFilteredChildren) ==
    IF actualTagNameMatchesQuery \/ matchingFiles # {} \/ hasFilteredChildren
    THEN Verdict(TRUE, IF actualTagNameMatchesQuery THEN files ELSE matchingFiles)
    ELSE Verdict(FALSE, {})

\* case TagFilterMode.TagsAndFiles
TagsAndFilesCase(actualTagNameMatchesQuery, isAncestorMatched, files, matchingFiles, hasFilteredChildren) ==
    IF actualTagNameMatchesQuery \/ isAncestorMatched \/ matchingFiles # {}
       \/ hasFilteredChildren
    THEN Verdict(TRUE, IF actualTagNameMatchesQuery \/ isAncestorMatched
                       THEN files ELSE matchingFiles)
    ELSE Verdict(FALSE, {})

\* mutation: a retained node shows the files whose names match
TagsOnlyCase_MatchingFiles(actualTagNameMatchesQuery, isAncestorMatched, files, matchingFiles, hasFilteredChildren) ==
    IF actualTagNameMatchesQuery \/ isAncestorMatched \/ hasFilteredChildren
    THEN Verdict(TRUE, matchingFiles)
    ELSE Verdict(FALSE, {})

\* case TagFilterMode.TagsOnly
TagsOnlyCase(actualTagNameMatchesQuery, isAncestorMatched, files, matchingFiles, hasFilteredChildren) ==
    IF actualTagNameMatchesQuery \/ isAncestorMatched \/ hasFilteredChildren
    THEN Verdict(TRUE, files)
    ELSE Verdict(FALSE, {})

\* mutation: a node kept for its content shows all its files
FilesOnlyCase_AllFiles(actualTagNameMatchesQuery, isAncestorMatched, files, matchingFiles, hasFilteredChildren) ==
    IF matchingFiles # {} \/ hasFilteredChildren
    THEN Verdict(TRUE, files)
    ELSE IF (actualTagNameMatchesQuery \/ isAncestorMatched)
            /\ ~hasFilteredChildren /\ matchingFiles = {}
    THEN Verdict(TRUE, {})
    ELSE Verdict(FALSE, {})

\* mutation: an empty structural tag is kept only for a tag that has files
FilesOnlyCase_PlaceholderWithFiles(actualTagNameMatchesQuery, isAncestorMatched, files, matchingFiles, hasFilteredChildren) ==
    IF matchingFiles # {} \/ hasFilteredChildren
    THEN Verdict(TRUE, matchingFiles)
    ELSE IF (actualTagNameMatchesQuery \/ isAncestorMatched) /\ files # {}
    THEN Verdict(TRUE, {})
    ELSE Verdict(FALSE, {})

\* mutation: no empty structural tag is kept
FilesOnlyCase_NoPlaceholder(actualTagNameMatchesQuery, isAncestorMatched, files, matchingFiles, hasFilteredChildren) ==
    IF matchingFiles # {} \/ hasFilteredChildren
    THEN Verdict(TRUE, matchingFiles)
    ELSE Verdict(FALSE, {})

\* case TagFilterMode.FilesOnly
FilesOnlyCase(actualTagNameMatchesQuery, isAncestorMatched, files, matchingFiles, hasFilteredChildren) ==
    IF matchingFiles # {} \/ hasFilteredChildren
    THEN Verdict(TRUE, matchingFiles)
    ELSE IF (actualTagNameMatchesQuery \/ isAncestorMatched)
            /\ ~hasFilteredChildren /\ matchingFiles = {}
    THEN Verdict(TRUE, {})
    ELSE Verdict(FALSE, {})

\* `switch (this.filterMode)`
FilterSwitch(mode, actualTagNameMatchesQuery, isAncestorMatched, files, matchingFiles, hasFilteredChildren) ==
    CASE mode = "TagsAndFiles" ->
           TagsAndFilesCase(actualTagNameMatchesQuery, isAncestorMatched, files,
                            matchingFiles, hasFilteredChildren)
      [] mode = "TagsOnly" ->
           TagsOnlyCase(actualTagNameMatchesQuery, isAncestorMatched, files,
                        matchingFiles, hasFilteredChildren)
      [] mode = "FilesOnly" ->
           FilesOnlyCase(actualTagNameMatchesQuery, isAncestorMatched, files,
                         matchingFiles, hasFilteredChildren)

\* the tree made of the trees parts[n], whose nodes are apart
Assemble(parts) ==
    [p \in UNION {DOMAIN parts[n] : n \in DOMAIN parts} |->
        parts[CHOOSE n \in DOMAIN parts : p \in DOMAIN parts[n]][p]]

\* filterHierarchy applied to the children of the node `at` of h: the loop
\* over their entries, each giving its own node (if included) above its
\* filtered children
RECURSIVE filterHierarchy(_, _, _, _, _)
filterHierarchy(h, at, query, mode, isAncestorMatched) ==
    IF query = <<>> THEN Unfiltered(h, at)
    ELSE
      LET normalizedFilterQuery == ToLowerCase(query)
          Entry(node) ==
              LET key == node[Len(node)]
                  files == h[node]
                  actualTagNameMatchesQuery ==
                      Contains(ToLowerCase(key), normalizedFilterQuery)
                  newIsAncestorMatched == isAncestorMatched \/ actualTagNameMatchesQuery
                  filteredChildren ==
                      filterHierarchy(h, node, query, mode, newIsAncestorMatched)
                  matchingFiles ==
                      {file \in files :
                          Contains(ToLowerCase(file.basename), normalizedFilterQuery)}
                  verdict ==
                      FilterSwitch(mode, actualTagNameMatchesQuery, isAncestorMatched,
                                   files, matchingFiles, DOMAIN filteredChildren # {})
              IN IF verdict.includeNode
                 THEN (node :> verdict.filesToShow) @@ filteredChildren
                 ELSE EmptyHierarchy
      IN Assemble([node \in ChildrenOf(h, at) |-> Entry(node)])

(***************************************************************************)
(* renderTagGroup (TagNavigationRenderer)                                  *)
(*                                                                         *)
(* What is rendered is held as a function from a <details> group, named by *)
(* the keys of the groups enclosing it and its own, to its data-tag-path   *)
(* attribute, the name it shows and the files it lists.                    *)
(***************************************************************************)
\* mutation: a node with a single child is merged with it even if it has files
ShouldCollapse_WhateverFiles(children, files) == Cardinality(children) = 1

\* `Object.keys(children).length === 1 && files.size === 0`
ShouldCollapse(children, files) == Cardinality(children) = 1 /\ files = {}

\* the body of the loop of renderTagGroup for the entry `key` of the group,
\* standing for `node` of h, under the groups `path`
RECURSIVE RenderEntry(_, _, _, _)
RenderEntry(h, key, node, path) ==
    LET files == h[node]
        children == ChildrenOf(h, node)
    IN IF ShouldCollapse(children, files)
       THEN LET next == CHOOSE c \in children : TRUE
                nextKey == next[Len(next)]
            IN RenderEntry(h, key \o <<"/">> \o nextKey, next, path)
       ELSE LET currentTagPath ==
                    (IF Len(path) > 0 THEN Join(path, "/") \o <<"/">> ELSE <<>>) \o key
                groupContainer == Append(path, key)
            IN (groupContainer :>
                    [tagPath |-> currentTagPath, name |-> key, files |-> files])
               @@ Assemble([c \in children |->
                               RenderEntry(h, c[Len(c)], c, groupContainer)])

\* renderTagGroup(container, group, []) on the whole tree
renderTagGroup(h) ==
    Assemble([node \in ChildrenOf(h, <<>>) |-> RenderEntry(h, node[Len(node)], node, <<>>)])

(***************************************************************************)
(* The Related Notes view (RelatedNotesView, TagTacticianPlugin)           *)
(***************************************************************************)
\* String.prototype.trim
RECURSIVE Trim(_)
Trim(s) ==
    IF s # <<>> /\ Head(s) = " " THEN Trim(Tail(s))
    ELSE IF s # <<>> /\ s[Len(s)] = " " THEN Trim(SubSeq(s, 1, Len(s) - 1))
    ELSE s

\* buildIndex without its noteTagsMap.clear(): the entries of the files
\* indexed now are set, the others are left as they were
buildIndex_NoClear ==
    LET indexed == {FilePath(f) : f \in {g \in vault : metadataCache[g].avail}}
    IN [path \in indexed \cup DOMAIN noteTagsMap |->
           IF path \in indexed
           THEN gatherTagsFromCache(metadataCache[CHOOSE f \in vault : FilePath(f) = path])
           ELSE noteTagsMap[path]]

\* indexSingleFile for every file of the vault, after noteTagsMap.clear();
\* a file without cache gets no entry
buildIndex ==
    [path \in {FilePath(f) : f \in {g \in vault : metadataCache[g].avail}} |->
        gatherTagsFromCache(metadataCache[CHOOSE f \in vault : FilePath(f) = path])]

\* `this.noteTagsMap.get(notePath) ?? new Set()`
getNoteTags(map, notePath) == IF notePath \in DOMAIN map THEN map[notePath] ELSE <<>>

\* TagTacticianPlugin.computeRelatedNotes
PluginComputeRelatedNotes(path) ==
    IF path = <<>> THEN <<>> ELSE computeRelatedNotes(path)

\* whether applyFilter keeps the item
FilterKeeps(item, filter, map) ==
    \/ Contains(ToLowerCase(item.notePath), filter)
    \/ \E t \in Range(getNoteTags(map, item.notePath)) : Contains(ToLowerCase(t), filter)

applyFilter(results, filter, map) ==
    IF filter = <<>> THEN results
    ELSE SelectSeq(results, LAMBDA item : FilterKeeps(item, filter, map))

\* mutation: only scores above the minimum are shown
MeetsMinimum_Above(score, minimum) == score > minimum * Scale

\* `r.score >= this.plugin.settings.minimumRelatedNotesScore`
MeetsMinimum(score, minimum) == score >= minimum * Scale

NoneFound == <<"No related notes found.">>
NoneMatch == <<"No notes match your filter.">>

\* renderNoteList: the items created in the list container, or the notice
renderNoteList(results, filter, map, minimum) ==
    IF Len(results) = 0 THEN [items |-> <<>>, notice |-> NoneFound]
    ELSE LET filteredResults == applyFilter(results, filter, map)
         IN IF Len(filteredResults) = 0 THEN [items |-> <<>>, notice |-> NoneMatch]
            ELSE [items |-> SelectSeq(filteredResults,
                                      LAMBDA r : MeetsMinimum(r.score, minimum)),
                  notice |-> <<>>]

\* the file of a path, NoFile for null or a path of no file
FileOfPath(files, path) ==
    IF \E f \in files : FilePath(f) = path
    THEN CHOOSE f \in files : FilePath(f) = path
    ELSE NoFile

\* scoreEl.title = "Score: " + score
PlainTitle == [kind |-> "plain", tag |-> 0, title |-> 0, path |-> 0, link |-> 0]

\* gatherTagsFromCache(null) throws before the title is set
NoTitle == [kind |-> "TypeError", tag |-> 0, title |-> 0, path |-> 0, link |-> 0]

\* the "Score Breakdown" of one shown item against currentFile: the four
\* weighted components, in units of 1/Scale
ScoreTitle(files, cache, w, item, currentFile) ==
    LET noteFile == FileOfPath(files, item.notePath)
    IN IF noteFile = NoFile \/ currentFile = NoFile THEN PlainTitle
       ELSE IF ~cache[currentFile].avail \/ ~cache[noteFile].avail THEN NoTitle
       ELSE LET currSegments == gatherAllPrefixSegmentsForNote(
                                    Range(gatherTagsFromCache(cache[currentFile])))
                candSegments == gatherAllPrefixSegmentsForNote(
                                    Range(gatherTagsFromCache(cache[noteFile])))
            IN [kind |-> "breakdown",
                tag |-> w.weightTagSimilarity
                        * PrefixOverlapScore(currSegments, candSegments) * Scale,
                title |-> w.weightTitleSimilarity * TitleSimScore(currentFile, noteFile),
                path |-> w.weightPathSimilarity * PathSimScore(currentFile, noteFile),
                link |-> w.weightLinkInterconnections
                         * LinkScore(currentFile, cache[currentFile], noteFile, cache[noteFile])
                         * Scale]

\* the titles of the score elements of the items, none when scores are hidden
ScoreTitles(files, cache, w, items, score, currentFile) ==
    IF ~score THEN <<>>
    ELSE [i \in 1..Len(items) |-> ScoreTitle(files, cache, w, items[i], currentFile)]

\* whether the loop over the items throws, which it does at its first item
RenderThrows(files, cache, w, items, score, currentFile) ==
    /\ score
    /\ items # <<>>
    /\ ScoreTitle(files, cache, w, items[1], currentFile) = NoTitle

(***************************************************************************)
(* The bulk tag editor (EditTagsModal)                                     *)
(***************************************************************************)
\* the UTF-16 code unit of a character of the tags edited
CodeUnit(c) ==
    CASE c = "#" -> 35 [] c = "/" -> 47 [] c = "B" -> 66
      [] c = "x" -> 120 [] c = "y" -> 121 [] c = "z" -> 122

\* the order Array.prototype.sort() puts strings in: by code units
RECURSIVE StringLess(_, _)
StringLess(a, b) ==
    IF b = <<>> THEN FALSE
    ELSE IF a = <<>> THEN TRUE
    ELSE IF Head(a) = Head(b) THEN StringLess(Tail(a), Tail(b))
    ELSE CodeUnit(Head(a)) < CodeUnit(Head(b))

\* Array.prototype.sort() of strings
RECURSIVE SortStrings(_)
SortStrings(tags) ==
    IF tags = <<>> THEN <<>>
    ELSE LET rest == SortStrings(Tail(tags))
             before == SelectSeq(rest, LAMBDA t : ~StringLess(Head(tags), t))
             after == SelectSeq(rest, LAMBDA t : StringLess(Head(tags), t))
         IN before \o <<Head(tags)>> \o after

\* parseTagInput: the non-empty pieces between runs of commas and whitespace
parseTagInput(input) ==
    LET pieces == SelectSeq(SplitCommaSpace(input), LAMBDA tag : Len(Trim(tag)) > 0)
    IN [i \in 1..Len(pieces) |-> Trim(pieces[i])]

\* the row loadFileTagData makes for a file, as renderFileRow shows it
FileRow(file, currentTags) ==
    LET proposedTags == SortStrings(currentTags)
    IN [file |-> file, currentTags |-> currentTags, proposedTags |-> proposedTags,
        accepted |-> TRUE, checkboxEl |-> TRUE, proposedEl |-> proposedTags]

\* `for (const tag of this.tagsToAdd) if (!newTagSet.includes(tag)) newTagSet.push(tag)`
RECURSIVE AddMissing(_, _)
AddMissing(newTagSet, toAdd) ==
    IF toAdd = <<>> THEN newTagSet
    ELSE AddMissing(SetAdd(newTagSet, Head(toAdd)), Tail(toAdd))

\* updateProposedTags for one row: the proposed tags and the span showing them
UpdatedRow(tagData, toAdd, toRemove) ==
    LET added == AddMissing(tagData.currentTags, toAdd)
        kept == SelectSeq(added, LAMBDA t : t \notin Range(toRemove))
        newTagSet == SortStrings(kept)
    IN [tagData EXCEPT !.proposedTags = newTagSet, !.proposedEl = newTagSet]

updateProposedTags(data, toAdd, toRemove) ==
    [i \in 1..Len(data) |-> UpdatedRow(data[i], toAdd, toRemove)]

\* mutation: every row is taken, accepted or not
AcceptedRows_All(data) == data

\* `this.fileTagData.filter((td) => td.accepted)`
AcceptedRows(data) == SelectSeq(data, LAMBDA td : td.accepted)

\* the updates applyChanges gathers
GatherUpdates(data) ==
    LET rows == AcceptedRows(data)
    IN [i \in 1..Len(rows) |-> [file |-> rows[i].file, finalTags |-> rows[i].proposedTags]]

(***************************************************************************)
(* Inputs                                                                  *)
(***************************************************************************)
DEFAULT_SETTINGS ==
    [minimumRelatedNotesScore |-> 1, defaultShowScore |-> TRUE,
     nbtDefaultSort |-> "alphabetically-descending",
     weightTagSimilarity |-> 1, weightTitleSimilarity |-> 1,
     weightPathSimilarity |-> 1, weightLinkInterconnections |-> 1]

WeightKeys ==
    {"weightTagSimilarity", "weightTitleSimilarity", "weightPathSimilarity",
     "weightLinkInterconnections"}

\* the strings of length at most n over the alphabet
RECURSIVE StringsUpTo(_, _)
StringsUpTo(alphabet, n) ==
    IF n = 0 THEN {<<>>}
    ELSE LET shorter == StringsUpTo(alphabet, n - 1)
         IN shorter \cup {Append(s, c) : s \in shorter, c \in alphabet}

SimStrings == StringsUpTo({"a", "b"}, MaxStrLen)

\* tags of at most MaxTagDepth segments, each "x", "y" or empty
TagStrings ==
    {Join(segs, "/") : segs \in StringsUpTo({<<"x">>, <<"y">>, <<>>}, MaxTagDepth) \ {<<>>}}

\* the sets of at most n tags
RECURSIVE TagSetsUpTo(_)
TagSetsUpTo(n) ==
    IF n = 0 THEN {{}}
    ELSE LET smaller == TagSetsUpTo(n - 1)
         IN smaller \cup {T \cup {t} : T \in smaller, t \in TagStrings}

TagSets == TagSetsUpTo(MaxNoteTags)

NoCall == [op |-> "none", arg |-> <<>>]

(***************************************************************************)
(* Actions on the vault                                                    *)
(***************************************************************************)
simVars == <<simA, simB, simFwd, simBwd>>
prefixVars == <<noteTags, segments>>
navVars == <<raised, filterQuery, filterMode, filtered, display, sortedTree>>
viewVars == <<activeFilePath, relatedFilterQuery, noteTagsMap, shown, showScore, tooltips, viewOpen>>
modalVars == <<fileTagData, tagsToAdd, tagsToRemove, modalOpen, submitted>>
focusVars == <<timer, pendingTimers, quiet, gap, activeView, workspaceFile>>
listVars == <<listContainerEl, expandAll, sortMode, openGroups>>
restVars == <<stat, focusVars, listVars>>
uiVars == <<viewVars, modalVars, restVars>>

NoIndex == [p \in {} |-> <<>>]
NothingShown == [items |-> <<>>, notice |-> <<>>]

\* the Related Notes view and the bulk tag editor before they are opened
UiClosed ==
    /\ activeFilePath = <<>> /\ relatedFilterQuery = <<>>
    /\ noteTagsMap = NoIndex /\ shown = NothingShown
    /\ showScore = DEFAULT_SETTINGS.defaultShowScore /\ tooltips = <<>> /\ viewOpen = FALSE
    /\ fileTagData = <<>> /\ tagsToAdd = <<>> /\ tagsToRemove = <<>>
    /\ modalOpen = FALSE /\ submitted = <<>>

NoDisplay == [p \in {} |-> {}]
NoOrder == [p \in {} |-> <<>>]

\* the creation and modification times of the files where they play no part
DefaultStat == [f \in NavFiles |-> [ctime |-> 1, mtime |-> 1]]

\* the state outside the scorer, the tag navigation, the Related Notes view
\* and the bulk tag editor, at load
\* no focus change yet, no view of the tag navigation yet
ViewsIdle ==
    /\ timer = 0 /\ pendingTimers = {} /\ quiet = DebounceMs /\ gap = DebounceMs
    /\ activeView = "other" /\ workspaceFile = NoFile
    /\ listContainerEl = FALSE /\ expandAll = FALSE
    /\ sortMode = DEFAULT_SETTINGS.nbtDefaultSort /\ openGroups = {}

RestIdle == stat = DefaultStat /\ ViewsIdle

\* what the last operations returned is forgotten when the vault changes
Forget ==
    /\ lastCall' = NoCall /\ related' = <<>> /\ hierarchy' = EmptyHierarchy
    /\ raised' = "none" /\ filterQuery' = <<>> /\ filtered' = EmptyHierarchy
    /\ display' = NoDisplay /\ sortedTree' = NoOrder

\* a file is created in the vault and its metadata resolved (or not)
CreateFile(f, snap) ==
    /\ f \notin vault
    /\ vault' = vault \cup {f}
    /\ metadataCache' = [metadataCache EXCEPT ![f] = snap]
    /\ Forget
    /\ UNCHANGED <<settings, simVars, prefixVars, filterMode, uiVars>>

DeleteFile(f) ==
    /\ f \in vault
    /\ vault' = vault \ {f}
    /\ metadataCache' = [metadataCache EXCEPT ![f] = Null]
    /\ Forget
    /\ UNCHANGED <<settings, simVars, prefixVars, filterMode, uiVars>>

\* the metadata of a file changes
MetadataChanged(f, snap) ==
    /\ f \in vault
    /\ metadataCache[f] # snap
    /\ metadataCache' = [metadataCache EXCEPT ![f] = snap]
    /\ Forget
    /\ UNCHANGED <<vault, settings, simVars, prefixVars, filterMode, uiVars>>

\* the settings tab sets one weight
SetWeight(key, val) ==
    /\ settings[key] # val
    /\ settings' = [settings EXCEPT ![key] = val]
    /\ Forget
    /\ UNCHANGED <<vault, metadataCache, simVars, prefixVars, filterMode, uiVars>>

ComputeRelatedNotes(currentNotePath) ==
    /\ related' = computeRelatedNotes(currentNotePath)
    /\ lastCall' = [op |-> "computeRelatedNotes", arg |-> currentNotePath]
    /\ hierarchy' = EmptyHierarchy
    /\ UNCHANGED <<vault, metadataCache, settings, simVars, prefixVars, navVars, uiVars>>

\* buildTagHierarchy returns the tree, or throws on the way
BuildTagHierarchy ==
    /\ LET built == buildTagHierarchy
       IN IF built = TypeError
          THEN /\ raised' = "TypeError"
               /\ hierarchy' = EmptyHierarchy
               /\ lastCall' = NoCall
          ELSE /\ raised' = "none"
               /\ hierarchy' = built
               /\ lastCall' = [op |-> "buildTagHierarchy", arg |-> <<>>]
    /\ related' = <<>> /\ filterQuery' = <<>> /\ filtered' = EmptyHierarchy
    /\ display' = NoDisplay /\ sortedTree' = NoOrder
    /\ UNCHANGED <<vault, metadataCache, settings, simVars, prefixVars, filterMode, uiVars>>

\* the vault changes, its files and their snapshots being among the given ones
VaultChangeOver(files, snaps) ==
    \/ \E f \in files, snap \in snaps \cup {Null} : CreateFile(f, snap)
    \/ \E f \in files : DeleteFile(f)
    \/ \E f \in files, snap \in snaps \cup {Null} : MetadataChanged(f, snap)

VaultChange == VaultChangeOver(AllFiles, Snapshots)

Init ==
    /\ vault = {}
    /\ metadataCache = [f \in NavFiles |-> Null]
    /\ settings = DEFAULT_SETTINGS
    /\ lastCall = NoCall
    /\ related = <<>>
    /\ hierarchy = EmptyHierarchy
    /\ simA = <<>> /\ simB = <<>> /\ simFwd = -1 /\ simBwd = -1
    /\ noteTags = {} /\ segments = {}
    /\ raised = "none"
    /\ filterQuery = <<>> /\ filterMode = "TagsAndFiles" /\ filtered = EmptyHierarchy
    /\ display = NoDisplay /\ sortedTree = NoOrder
    /\ UiClosed
    /\ RestIdle

\* the relatedness scorer over a changing vault
Next ==
    \/ VaultChange
    \/ \E key \in WeightKeys, val \in 0..MaxWeight : SetWeight(key, val)
    \/ \E p \in FocusPaths : ComputeRelatedNotes(p)

Spec == Init /\ [][Next]_vars

\* the tag hierarchy builder over a changing vault
NextNav ==
    \/ VaultChangeOver(AllFiles, BuilderSnapshots)
    \/ BuildTagHierarchy

SpecNav == Init /\ [][NextNav]_vars

\* setFilterMode; what was filtered under the mode before is forgotten
SetFilterMode(mode) ==
    /\ filterMode # mode
    /\ filterMode' = mode
    /\ lastCall' = IF lastCall.op = "filterHierarchy"
                   THEN [op |-> "buildTagHierarchy", arg |-> <<>>] ELSE lastCall
    /\ filterQuery' = <<>> /\ filtered' = EmptyHierarchy /\ display' = NoDisplay /\ sortedTree' = NoOrder
    /\ UNCHANGED <<vault, metadataCache, settings, related, hierarchy, raised,
                   simVars, prefixVars, uiVars>>

\* filterHierarchy(hierarchy, query) on the tree buildTagHierarchy returned
FilterHierarchy(query) ==
    /\ lastCall.op \in {"buildTagHierarchy", "filterHierarchy"}
    /\ filtered' = filterHierarchy(hierarchy, <<>>, query, filterMode, FALSE)
    /\ filterQuery' = query
    /\ lastCall' = [op |-> "filterHierarchy", arg |-> query]
    /\ display' = NoDisplay /\ sortedTree' = NoOrder
    /\ UNCHANGED <<vault, metadataCache, settings, related, hierarchy, raised,
                   simVars, prefixVars, filterMode, uiVars>>

\* the hierarchy filter over a changing vault
NextFilter ==
    \/ VaultChangeOver(NavFiles, FilterSnapshots)
    \/ BuildTagHierarchy
    \/ \E mode \in FilterModes : SetFilterMode(mode)
    \/ \E query \in FilterQueries : FilterHierarchy(query)

SpecFilter == Init /\ [][NextFilter]_vars

\* renderTagGroup on the tree buildTagHierarchy returned
RenderTagGroup ==
    /\ lastCall.op = "buildTagHierarchy"
    /\ display' = renderTagGroup(hierarchy)
    /\ lastCall' = [op |-> "renderTagGroup", arg |-> <<>>]
    /\ UNCHANGED <<vault, metadataCache, settings, related, hierarchy, raised,
                   simVars, prefixVars, filterQuery, filterMode, filtered, sortedTree, uiVars>>

\* the rendering of the tree over a changing vault
NextRender ==
    \/ VaultChangeOver(AllFiles, RenderSnapshots)
    \/ BuildTagHierarchy
    \/ RenderTagGroup

SpecRender == Init /\ [][NextRender]_vars

\* sortHierarchy(hierarchy, mode) on the tree buildTagHierarchy returned
SortHierarchy(mode) ==
    /\ lastCall.op \in {"buildTagHierarchy", "sortHierarchy"}
    /\ sortedTree' = sortHierarchy(hierarchy, mode)
    /\ lastCall' = [op |-> "sortHierarchy", arg |-> mode]
    /\ UNCHANGED <<vault, metadataCache, settings, related, hierarchy, raised,
                   simVars, prefixVars, filterQuery, filterMode, filtered, display, uiVars>>

\* the vault is empty at load, its files to come having any of the times
InitSort ==
    /\ vault = {}
    /\ metadataCache = [f \in NavFiles |-> Null]
    /\ settings = DEFAULT_SETTINGS
    /\ lastCall = NoCall
    /\ related = <<>>
    /\ hierarchy = EmptyHierarchy
    /\ simA = <<>> /\ simB = <<>> /\ simFwd = -1 /\ simBwd = -1
    /\ noteTags = {} /\ segments = {}
    /\ raised = "none"
    /\ filterQuery = <<>> /\ filterMode = "TagsAndFiles" /\ filtered = EmptyHierarchy
    /\ display = NoDisplay /\ sortedTree = NoOrder
    /\ UiClosed
    /\ \E times \in [AllFiles -> StatValues] :
          stat = [f \in NavFiles |-> IF f \in AllFiles THEN times[f] ELSE DefaultStat[f]]
    /\ ViewsIdle

\* the sorter over a changing vault
NextSort ==
    \/ VaultChangeOver(AllFiles, SortSnapshots)
    \/ BuildTagHierarchy
    \/ \E mode \in SortModes : SortHierarchy(mode)

SpecSort == InitSort /\ [][NextSort]_vars

(***************************************************************************)
(* The Related Notes view over the vault found at load                     *)
(***************************************************************************)
InitView ==
    /\ vault \in SUBSET AllFiles
    /\ metadataCache \in [NavFiles -> ViewSnapshots \cup {Null}]
    /\ \A f \in NavFiles \ vault : metadataCache[f] = Null
    /\ settings = DEFAULT_SETTINGS
    /\ lastCall = NoCall
    /\ related = <<>>
    /\ hierarchy = EmptyHierarchy
    /\ simA = <<>> /\ simB = <<>> /\ simFwd = -1 /\ simBwd = -1
    /\ noteTags = {} /\ segments = {}
    /\ raised = "none"
    /\ filterQuery = <<>> /\ filterMode = "TagsAndFiles" /\ filtered = EmptyHierarchy
    /\ display = NoDisplay /\ sortedTree = NoOrder
    /\ UiClosed
    /\ RestIdle

\* renderNoteList into the emptied list container, with scores shown or
\* not and currentFile what getActiveFile() returns
RenderNoteList(path, filter, score, currentFile) ==
    LET results == PluginComputeRelatedNotes(path)
        rendered == renderNoteList(results, filter, noteTagsMap,
                                   settings.minimumRelatedNotesScore)
    IN /\ related' = results
       /\ IF RenderThrows(vault, metadataCache, settings, rendered.items, score, currentFile)
          THEN /\ shown' = [items |-> <<rendered.items[1]>>, notice |-> <<>>]
               /\ tooltips' = <<NoTitle>>
          ELSE /\ shown' = rendered
               /\ tooltips' = ScoreTitles(vault, metadataCache, settings, rendered.items,
                                          score, currentFile)
       /\ lastCall' = [op |-> "renderNoteList", arg |-> path]

\* RelatedNotesView.refresh: the toggles are reset from the settings, the
\* controls rebuilt and the list rendered
Refresh(path, currentFile) ==
    /\ showScore' = settings.defaultShowScore
    /\ RenderNoteList(path, relatedFilterQuery, settings.defaultShowScore, currentFile)

\* onLayoutReady: tagIndexer.buildIndex()
BuildIndex ==
    /\ noteTagsMap' = buildIndex
    /\ lastCall' = [op |-> "buildIndex", arg |-> <<>>]
    /\ UNCHANGED <<vault, metadataCache, settings, related, hierarchy, simVars, prefixVars,
                   navVars, activeFilePath, relatedFilterQuery, shown, showScore, tooltips,
                   viewOpen, modalVars, restVars>>

\* the command "Open Related Notes Sidebar": activateRelatedNotesView opens
\* the leaf if there is none (onOpen refreshes the new view), reveals it and
\* refreshes the view
ActivateView ==
    /\ viewOpen' = TRUE
    /\ Refresh(activeFilePath, workspaceFile)
    /\ UNCHANGED <<vault, metadataCache, settings, hierarchy, simVars, prefixVars,
                   navVars, activeFilePath, relatedFilterQuery, noteTagsMap, modalVars,
                   restVars>>

\* the Related Notes leaf is closed: the view and its content are gone
CloseView ==
    /\ viewOpen
    /\ viewOpen' = FALSE
    /\ relatedFilterQuery' = <<>> /\ shown' = NothingShown /\ tooltips' = <<>>
    /\ showScore' = settings.defaultShowScore
    /\ lastCall' = NoCall
    /\ UNCHANGED <<vault, metadataCache, settings, related, hierarchy, simVars, prefixVars,
                   navVars, activeFilePath, noteTagsMap, modalVars, restVars>>

\* a markdown view of the file of the path becomes active and the debounce
\* timer of active-leaf-change fires on it, the Related Notes view being
\* open: activeFilePath is set and the view refreshed
FocusChange(path) ==
    /\ viewOpen
    /\ activeView' = "markdown"
    /\ workspaceFile' = FileOfPath(vault, path)
    /\ activeFilePath' = path
    /\ Refresh(path, FileOfPath(vault, path))
    /\ UNCHANGED <<vault, metadataCache, settings, hierarchy, simVars, prefixVars,
                   navVars, relatedFilterQuery, noteTagsMap, viewOpen, modalVars,
                   stat, timer, pendingTimers, quiet, gap, listVars>>

\* filterInput.oninput
FilterInput(value) ==
    /\ viewOpen
    /\ relatedFilterQuery' = ToLowerCase(Trim(value))
    /\ RenderNoteList(activeFilePath, relatedFilterQuery', showScore, workspaceFile)
    /\ UNCHANGED <<vault, metadataCache, settings, hierarchy, simVars, prefixVars,
                   navVars, activeFilePath, noteTagsMap, showScore, viewOpen, modalVars,
                   restVars>>

\* clearButton.onclick
ClearFilter ==
    /\ viewOpen
    /\ relatedFilterQuery' = <<>>
    /\ RenderNoteList(activeFilePath, <<>>, showScore, workspaceFile)
    /\ UNCHANGED <<vault, metadataCache, settings, hierarchy, simVars, prefixVars,
                   navVars, activeFilePath, noteTagsMap, showScore, viewOpen, modalVars,
                   restVars>>

\* the menu items "Refresh Notes" and "Show Tags": refreshList
RefreshList ==
    /\ viewOpen
    /\ RenderNoteList(activeFilePath, relatedFilterQuery, showScore, workspaceFile)
    /\ UNCHANGED <<vault, metadataCache, settings, hierarchy, simVars, prefixVars,
                   navVars, activeFilePath, relatedFilterQuery, noteTagsMap, showScore,
                   viewOpen, modalVars, restVars>>

\* the menu item "Show Score": the toggle is flipped and the list refreshed
ToggleShowScore ==
    /\ viewOpen
    /\ showScore' = ~showScore
    /\ RenderNoteList(activeFilePath, relatedFilterQuery, ~showScore, workspaceFile)
    /\ UNCHANGED <<vault, metadataCache, settings, hierarchy, simVars, prefixVars,
                   navVars, activeFilePath, relatedFilterQuery, noteTagsMap, viewOpen,
                   modalVars, restVars>>

\* the settings tab sets the minimum score; the view is not refreshed
SetMinimumScore(val) ==
    /\ settings.minimumRelatedNotesScore # val
    /\ settings' = [settings EXCEPT !.minimumRelatedNotesScore = val]
    /\ lastCall' = [op |-> "setMinimumScore", arg |-> <<>>]
    /\ UNCHANGED <<vault, metadataCache, related, hierarchy, simVars, prefixVars,
                   navVars, viewVars, modalVars, restVars>>

NextView ==
    \/ ActivateView
    \/ BuildIndex
    \/ \E f \in vault : FocusChange(FilePath(f))
    \/ FocusChange(<<>>)
    \/ \E value \in FilterInputs : FilterInput(value)
    \/ ClearFilter
    \/ RefreshList
    \/ \E val \in 0..MaxMinimumScore : SetMinimumScore(val)

SpecView == InitView /\ [][NextView]_vars

(***************************************************************************)
(* Focus changes: the debounced active-leaf-change listener                *)
(***************************************************************************)
Min(a, b) == IF a <= b THEN a ELSE b

\* mutation: the pending timer is not cleared
clearTimeout_Ignored(timers, id) == timers

\* window.clearTimeout(id): no effect if no pending timer has the id
clearTimeout(timers, id) == {t \in timers : t.id # id}

\* the id window.setTimeout returns: one no pending timer has
NewTimerId(timers) ==
    CHOOSE i \in 1..(MaxTimers + 1) :
        /\ \A t \in timers : t.id # i
        /\ \A j \in 1..(i - 1) : \E t \in timers : t.id = j

\* the vault the focus moves in
FocusCache ==
    [f \in NavFiles |->
        IF f = [basename |-> <<"A">>, parent |-> <<"/">>]
        THEN Snap(<< <<"#", "x">> >>, FmNone, << <<"a", "b">> >>)
        ELSE IF f = [basename |-> <<"a", "b">>, parent |-> <<"d">>]
        THEN Snap(<< <<"#", "x", "/", "y">> >>, FmArray(<<StrEntry(<<"x">>), NonStrEntry>>),
                  << <<"A">> >>)
        ELSE IF f = [basename |-> <<"b">>, parent |-> <<"d">>]
        THEN Snap(<<>>, FmString(<<"x", "/", "y", ",", " ", "z">>), << <<"b">>, <<"a", "b">> >>)
        ELSE Null]

\* the files whose markdown views become active
FocusTargets ==
    { [basename |-> <<"A">>, parent |-> <<"/">>],
      [basename |-> <<"a", "b">>, parent |-> <<"d">>] }

\* the listener of "active-leaf-change": the timer is cleared and set anew.
\* The leaf that became active shows a markdown view of the file, or a view
\* of another type without file (getActiveFile() then stays the file that
\* was active last).
ActiveLeafChange(type, file) ==
    /\ activeView' = type
    /\ workspaceFile' = IF type = "markdown" THEN file ELSE workspaceFile
    /\ LET cleared == clearTimeout(pendingTimers, timer)
           id == NewTimerId(cleared)
       IN /\ Cardinality(cleared) < MaxTimers
          /\ pendingTimers' = cleared \cup {[id |-> id, remaining |-> DebounceMs]}
          /\ timer' = id
    /\ gap' = quiet
    /\ quiet' = 0
    /\ UNCHANGED <<vault, metadataCache, settings, lastCall, related, hierarchy, simVars,
                   prefixVars, navVars, viewVars, modalVars, stat, listVars>>

\* TickMs pass without event
Tick ==
    /\ quiet < DebounceMs \/ \E t \in pendingTimers : t.remaining > 0
    /\ quiet' = Min(DebounceMs, quiet + TickMs)
    /\ pendingTimers' = {[t EXCEPT !.remaining = Max(0, @ - TickMs)] : t \in pendingTimers}
    /\ UNCHANGED <<vault, metadataCache, settings, lastCall, related, hierarchy, simVars,
                   prefixVars, navVars, viewVars, modalVars, stat, timer, gap, activeView,
                   workspaceFile, listVars>>

\* the callback of a timer whose delay has passed: without active markdown
\* view it returns; else activeFilePath is set and updateRelatedNotesView
\* refreshes the view if there is a Related Notes leaf
TimerFires(t) ==
    /\ t \in pendingTimers
    /\ t.remaining = 0
    /\ pendingTimers' = pendingTimers \ {t}
    /\ IF activeView # "markdown"
       THEN UNCHANGED <<activeFilePath, lastCall, related, shown, showScore, tooltips>>
       ELSE LET path == IF workspaceFile = NoFile THEN <<>> ELSE FilePath(workspaceFile)
            IN /\ activeFilePath' = path
               /\ IF viewOpen
                  THEN Refresh(path, workspaceFile)
                  ELSE UNCHANGED <<lastCall, related, shown, showScore, tooltips>>
    /\ UNCHANGED <<vault, metadataCache, settings, hierarchy, simVars, prefixVars, navVars,
                   relatedFilterQuery, noteTagsMap, viewOpen, modalVars, stat, timer, quiet,
                   gap, activeView, workspaceFile, listVars>>

InitFocus ==
    /\ vault = AllFiles
    /\ metadataCache = FocusCache
    /\ settings = DEFAULT_SETTINGS
    /\ lastCall = NoCall
    /\ related = <<>>
    /\ hierarchy = EmptyHierarchy
    /\ simA = <<>> /\ simB = <<>> /\ simFwd = -1 /\ simBwd = -1
    /\ noteTags = {} /\ segments = {}
    /\ raised = "none"
    /\ filterQuery = <<>> /\ filterMode = "TagsAndFiles" /\ filtered = EmptyHierarchy
    /\ display = NoDisplay /\ sortedTree = NoOrder
    /\ UiClosed
    /\ RestIdle

NextFocus ==
    \/ \E file \in FocusTargets : ActiveLeafChange("markdown", file)
    \/ ActiveLeafChange("other", NoFile)
    \/ Tick
    \/ \E t \in pendingTimers : TimerFires(t)
    \/ ActivateView
    \/ CloseView
    \/ RefreshList
    \/ ToggleShowScore
    \/ \E value \in FilterInputs : FilterInput(value)

SpecFocus == InitFocus /\ [][NextFocus]_vars

(***************************************************************************)
(* The tag navigation list (NavByTagView)                                  *)
(***************************************************************************)
\* getCurrentlyExpandedTagPaths: the data-tag-path of every open group,
\* `if (path)` leaving out the empty one
getCurrentlyExpandedTagPaths ==
    {display[g].tagPath : g \in openGroups} \ {<<>>}

\* mutation: only expand-all opens a group
IsOpened_ExpandAllOnly(expand, currentTagPath, previouslyExpandedPaths) == expand

\* `this.expandAll || (previouslyExpandedPaths &&
\* previouslyExpandedPaths.has(currentTagPath))`
IsOpened(expand, currentTagPath, previouslyExpandedPaths) ==
    expand \/ currentTagPath \in previouslyExpandedPaths

\* renderList: the open paths are gathered, the container emptied, the tree
\* built, filtered, sorted and rendered; the renderer's fields have the
\* given values, and `trigger` names the control that asked for the render
RenderList(isCollapseAllAction, query, mode, sort, expand, trigger) ==
    LET previouslyExpandedPaths ==
            IF isCollapseAllAction THEN {} ELSE getCurrentlyExpandedTagPaths
        tagHierarchy == buildTagHierarchy
    IN /\ IF tagHierarchy = TypeError
          THEN /\ raised' = "TypeError"
               /\ hierarchy' = EmptyHierarchy /\ filtered' = EmptyHierarchy
               /\ sortedTree' = NoOrder /\ display' = NoDisplay /\ openGroups' = {}
          ELSE LET filteredHierarchy == filterHierarchy(tagHierarchy, <<>>, query, mode, FALSE)
                   rendered == renderTagGroup(filteredHierarchy)
               IN /\ raised' = "none"
                  /\ hierarchy' = tagHierarchy /\ filtered' = filteredHierarchy
                  /\ sortedTree' = sortHierarchy(filteredHierarchy, sort)
                  /\ display' = rendered
                  /\ openGroups' = {g \in DOMAIN rendered :
                                       IsOpened(expand, rendered[g].tagPath,
                                                previouslyExpandedPaths)}
       /\ lastCall' = [op |-> "renderList", arg |-> trigger]

\* onOpen: buildView creates the controls and the list container and renders
BuildView ==
    /\ ~listContainerEl
    /\ listContainerEl' = TRUE
    /\ RenderList(FALSE, filterQuery, filterMode, sortMode, expandAll, "open")
    /\ UNCHANGED <<vault, metadataCache, settings, related, simVars, prefixVars,
                   filterQuery, filterMode, viewVars, modalVars, stat, focusVars,
                   expandAll, sortMode>>

\* an item of the sort menu
SortChange(sort) ==
    /\ listContainerEl
    /\ sortMode' = sort
    /\ RenderList(FALSE, filterQuery, filterMode, sort, expandAll, "sort")
    /\ UNCHANGED <<vault, metadataCache, settings, related, simVars, prefixVars,
                   filterQuery, filterMode, viewVars, modalVars, stat, focusVars,
                   listContainerEl, expandAll>>

\* the button "Expand/Collapse All": the flag is toggled; turning it off is
\* a collapse-all action
ExpandAllButton ==
    /\ listContainerEl
    /\ expandAll' = ~expandAll
    /\ RenderList(expandAll, filterQuery, filterMode, sortMode, ~expandAll,
                  IF expandAll THEN "collapse-all" ELSE "expand-all")
    /\ UNCHANGED <<vault, metadataCache, settings, related, simVars, prefixVars,
                   filterQuery, filterMode, viewVars, modalVars, stat, focusVars,
                   listContainerEl, sortMode>>

\* an item of the settings menu that sets the filter scope
FilterModeChange(mode) ==
    /\ listContainerEl
    /\ filterMode' = mode
    /\ RenderList(FALSE, filterQuery, mode, sortMode, expandAll, "scope")
    /\ UNCHANGED <<vault, metadataCache, settings, related, simVars, prefixVars,
                   filterQuery, viewVars, modalVars, stat, focusVars,
                   listContainerEl, expandAll, sortMode>>

\* the filter input: the trimmed value, lowercased, is the query
FilterTyped(value) ==
    /\ listContainerEl
    /\ filterQuery' = ToLowerCase(Trim(value))
    /\ RenderList(FALSE, ToLowerCase(Trim(value)), filterMode, sortMode, expandAll, "filter")
    /\ UNCHANGED <<vault, metadataCache, settings, related, simVars, prefixVars,
                   filterMode, viewVars, modalVars, stat, focusVars,
                   listContainerEl, expandAll, sortMode>>

\* the item "Refresh" of the settings menu
RefreshMenu ==
    /\ listContainerEl
    /\ RenderList(FALSE, filterQuery, filterMode, sortMode, expandAll, "refresh")
    /\ UNCHANGED <<vault, metadataCache, settings, related, simVars, prefixVars,
                   filterQuery, filterMode, viewVars, modalVars, stat, focusVars,
                   listContainerEl, expandAll, sortMode>>

\* the user clicks the summary of a group: the <details> element toggles
ToggleGroup(g) ==
    /\ g \in DOMAIN display
    /\ openGroups' = IF g \in openGroups THEN openGroups \ {g} ELSE openGroups \cup {g}
    /\ lastCall' = [op |-> "toggle", arg |-> display[g].tagPath]
    /\ UNCHANGED <<vault, metadataCache, settings, related, hierarchy, simVars, prefixVars,
                   raised, filterQuery, filterMode, filtered, display, sortedTree,
                   viewVars, modalVars, stat, focusVars, listContainerEl, expandAll, sortMode>>

\* the vault of the list: one note tagged work/acme, one whose only tag is
\* the empty string, and one with any of the snapshots
InitList ==
    /\ vault = AllFiles
    /\ \E snaps \in [AllFiles -> ListSnapshots] :
          /\ snaps[[basename |-> <<"a", "b">>, parent |-> <<"d">>]]
                 = Tagged(<< <<"#", "w", "o", "r", "k", "/", "a", "c", "m", "e">> >>)
          /\ snaps[[basename |-> <<"b">>, parent |-> <<"d">>]]
                 = Snap(<<>>, FmArray(<<StrEntry(<<>>)>>), <<>>)
          /\ metadataCache = [f \in NavFiles |-> IF f \in AllFiles THEN snaps[f] ELSE Null]
    /\ settings = DEFAULT_SETTINGS
    /\ lastCall = NoCall
    /\ related = <<>>
    /\ hierarchy = EmptyHierarchy
    /\ simA = <<>> /\ simB = <<>> /\ simFwd = -1 /\ simBwd = -1
    /\ noteTags = {} /\ segments = {}
    /\ raised = "none"
    /\ filterQuery = <<>> /\ filterMode = "TagsAndFiles" /\ filtered = EmptyHierarchy
    /\ display = NoDisplay /\ sortedTree = NoOrder
    /\ UiClosed
    /\ RestIdle

NextList ==
    \/ BuildView
    \/ \E sort \in ListSortModes : SortChange(sort)
    \/ ExpandAllButton
    \/ \E mode \in FilterModes : FilterModeChange(mode)
    \/ \E value \in ListQueries : FilterTyped(value)
    \/ RefreshMenu
    \/ \E g \in DOMAIN display : ToggleGroup(g)

SpecList == InitList /\ [][NextList]_vars

(***************************************************************************)
(* The bulk tag editor                                                     *)
(***************************************************************************)
nonModalVars ==
    <<vault, metadataCache, settings, related, hierarchy, simVars, prefixVars, navVars,
      viewVars, restVars>>

\* `t.startsWith("#") ? t.slice(1) : t` on every tag
StripHash(tags) ==
    [i \in 1..Len(tags) |-> IF StartsWith(tags[i], "#") THEN Substring(tags[i], 1) ELSE tags[i]]

\* a bulk tag editor is made for the files and opened: loadFileTagData and
\* a row rendered for each file
OpenModal(tagsOfFile) ==
    /\ ~modalOpen
    /\ LET mdFiles == getMarkdownFiles(AllFiles)
       IN fileTagData' =
              [i \in 1..Len(mdFiles) |-> FileRow(mdFiles[i], StripHash(tagsOfFile[mdFiles[i]]))]
    /\ tagsToAdd' = <<>> /\ tagsToRemove' = <<>>
    /\ modalOpen' = TRUE /\ submitted' = <<>>
    /\ lastCall' = NoCall
    /\ UNCHANGED nonModalVars

\* the user clicks the checkbox of a row: checkbox.onchange
ToggleCheckbox(i) ==
    /\ modalOpen
    /\ LET checked == ~fileTagData[i].checkboxEl
       IN fileTagData' = [fileTagData EXCEPT ![i].checkboxEl = checked,
                                             ![i].accepted = checked]
    /\ UNCHANGED <<nonModalVars, lastCall, tagsToAdd, tagsToRemove, modalOpen, submitted>>

\* the buttons "Select all" (TRUE) and "Deselect all" (FALSE)
SelectAll(value) ==
    /\ modalOpen
    /\ fileTagData' = [i \in 1..Len(fileTagData) |->
                          [fileTagData[i] EXCEPT !.accepted = value, !.checkboxEl = value]]
    /\ UNCHANGED <<nonModalVars, lastCall, tagsToAdd, tagsToRemove, modalOpen, submitted>>

\* the input "Add Tags" changes
EditAddTags(value) ==
    /\ modalOpen
    /\ tagsToAdd' = parseTagInput(value)
    /\ fileTagData' = updateProposedTags(fileTagData, tagsToAdd', tagsToRemove)
    /\ UNCHANGED <<nonModalVars, lastCall, tagsToRemove, modalOpen, submitted>>

\* the input "Remove Tags" changes
EditRemoveTags(value) ==
    /\ modalOpen
    /\ tagsToRemove' = parseTagInput(value)
    /\ fileTagData' = updateProposedTags(fileTagData, tagsToAdd, tagsToRemove')
    /\ UNCHANGED <<nonModalVars, lastCall, tagsToAdd, modalOpen, submitted>>

\* the button "Apply Changes": applyChanges
ApplyChanges ==
    /\ modalOpen
    /\ LET updates == GatherUpdates(fileTagData)
       IN submitted' = IF Len(updates) = 0 THEN submitted ELSE Append(submitted, updates)
    /\ modalOpen' = FALSE
    /\ lastCall' = [op |-> "applyChanges", arg |-> <<>>]
    /\ UNCHANGED <<nonModalVars, fileTagData, tagsToAdd, tagsToRemove>>

\* the button "Cancel"
Cancel ==
    /\ modalOpen
    /\ modalOpen' = FALSE
    /\ UNCHANGED <<nonModalVars, lastCall, fileTagData, tagsToAdd, tagsToRemove, submitted>>

NextModal ==
    \/ \E tagsOfFile \in [AllFiles -> CurrentTagLists] : OpenModal(tagsOfFile)
    \/ \E i \in 1..Len(fileTagData) : ToggleCheckbox(i)
    \/ \E value \in BOOLEAN : SelectAll(value)
    \/ \E value \in AddInputs : EditAddTags(value)
    \/ \E value \in RemoveInputs : EditRemoveTags(value)
    \/ ApplyChanges
    \/ Cancel

SpecModal == Init /\ [][NextModal]_vars

(***************************************************************************)
(* The string similarity on its own                                        *)
(***************************************************************************)
InitSim ==
    /\ vault = {}
    /\ metadataCache = [f \in NavFiles |-> Null]
    /\ settings = DEFAULT_SETTINGS
    /\ lastCall = NoCall
    /\ related = <<>>
    /\ hierarchy = EmptyHierarchy
    /\ simA \in SimStrings /\ simB \in SimStrings
    /\ simFwd = -1 /\ simBwd = -1
    /\ noteTags = {} /\ segments = {}
    /\ raised = "none"
    /\ filterQuery = <<>> /\ filterMode = "TagsAndFiles" /\ filtered = EmptyHierarchy
    /\ display = NoDisplay /\ sortedTree = NoOrder
    /\ UiClosed
    /\ RestIdle

\* levenshteinSimilarity(simA, simB)
Similarity ==
    /\ simFwd' = levenshteinSimilarity(simA, simB)
    /\ UNCHANGED <<vault, metadataCache, settings, lastCall, related, hierarchy,
                   simA, simB, simBwd, prefixVars, navVars, uiVars>>

\* levenshteinSimilarity(simB, simA)
SimilaritySwapped ==
    /\ simBwd' = levenshteinSimilarity(simB, simA)
    /\ UNCHANGED <<vault, metadataCache, settings, lastCall, related, hierarchy,
                   simA, simB, simFwd, prefixVars, navVars, uiVars>>

NextSim == Similarity \/ SimilaritySwapped

SpecSim == InitSim /\ [][NextSim]_vars

(***************************************************************************)
(* The tag prefix expander on its own                                      *)
(***************************************************************************)
InitPrefix ==
    /\ vault = {}
    /\ metadataCache = [f \in NavFiles |-> Null]
    /\ settings = DEFAULT_SETTINGS
    /\ lastCall = NoCall
    /\ related = <<>>
    /\ hierarchy = EmptyHierarchy
    /\ simA = <<>> /\ simB = <<>> /\ simFwd = -1 /\ simBwd = -1
    /\ noteTags \in TagSets /\ segments = {}
    /\ raised = "none"
    /\ filterQuery = <<>> /\ filterMode = "TagsAndFiles" /\ filtered = EmptyHierarchy
    /\ display = NoDisplay /\ sortedTree = NoOrder
    /\ UiClosed
    /\ RestIdle

GatherAllPrefixSegmentsForNote ==
    /\ lastCall = NoCall
    /\ segments' = gatherAllPrefixSegmentsForNote(noteTags)
    /\ lastCall' = [op |-> "gatherAllPrefixSegmentsForNote", arg |-> <<>>]
    /\ UNCHANGED <<vault, metadataCache, settings, related, hierarchy, simVars, noteTags,
                   navVars, uiVars>>

NextPrefix == GatherAllPrefixSegmentsForNote

SpecPrefix == InitPrefix /\ [][NextPrefix]_vars

(***************************************************************************)
(* Properties of the relatedness scorer (Spec)                             *)
(***************************************************************************)
RelatedReturned == lastCall.op = "computeRelatedNotes"

\* the file the focus path resolves to, if any
FocusFiles == {f \in vault : FilePath(f) = lastCall.arg}

FocusScored == RelatedReturned /\ \E f \in FocusFiles : metadataCache[f].avail

ReturnedPaths == {related[i].notePath : i \in 1..Len(related)}

\* the "/"-prefixes of a tag: the tag itself and every part of it that ends
\* right before a "/"
SlashPrefixes(t) ==
    {SubSeq(t, 1, k) : k \in {n \in 0..Len(t) : n = Len(t) \/ t[n + 1] = "/"}}

PrefixSegments(f) ==
    UNION {SlashPrefixes(t) : t \in Range(gatherTagsFromCache(metadataCache[f]))}

\* the four factors of candidate c against focus f, and their weighted sum
PrefixOverlap(f, c) == Cardinality(PrefixSegments(c) \cap PrefixSegments(f))
TitleSim(f, c) == levenshteinSimilarity(ToLowerCase(f.basename), ToLowerCase(c.basename))
AtRoot(f) == f.parent = <<"/">>
PathSim(f, c) ==
    IF AtRoot(f) \/ AtRoot(c) THEN 0 ELSE levenshteinSimilarity(FilePath(f), FilePath(c))
References(a, b) == b.basename \in Range(metadataCache[a].links)
LinkCount(f, c) ==
    (IF References(c, f) THEN 1 ELSE 0) + (IF References(f, c) THEN 1 ELSE 0)

WeightedSum(f, c) ==
    settings.weightTagSimilarity * PrefixOverlap(f, c) * Scale
    + settings.weightTitleSimilarity * TitleSim(f, c)
    + settings.weightPathSimilarity * PathSim(f, c)
    + settings.weightLinkInterconnections * LinkCount(f, c) * Scale

\* the position of a path in the listing of the vault's files
ListingIndex(path) ==
    LET listing == getMarkdownFiles(vault)
    IN CHOOSE i \in 1..Len(listing) : FilePath(listing[i]) = path

\* C1: the list returned by computeRelatedNotes(focus) never has an entry
\* whose path is the focus itself.
C1_FocusExcluded ==
    RelatedReturned => \A i \in 1..Len(related) : related[i].notePath # lastCall.arg

\* the focus was scored against two other notes
C1_Witness ==
    FocusScored /\ Len(related) = 2 /\ Cardinality(vault) = 3

\* C2: the list returned by computeRelatedNotes is sorted non-increasing by
\* score: every entry's score is at least the next entry's.
C2_SortedByScore ==
    RelatedReturned =>
        \A i \in 1..(Len(related) - 1) : related[i].score >= related[i + 1].score

\* two results of different scores, returned in the reverse of the order in
\* which the vault lists them
C2_Witness ==
    /\ RelatedReturned /\ Len(related) = 2
    /\ related[1].score > related[2].score
    /\ ListingIndex(related[1].notePath) > ListingIndex(related[2].notePath)

\* C3 as stated: one entry for every note other than the focus whose snapshot
\* is available, whatever its score.
C3_EveryCandidateReturned ==
    FocusScored =>
        /\ ReturnedPaths =
             {FilePath(c) : c \in {d \in vault \ FocusFiles : metadataCache[d].avail}}
        /\ Len(related) = Cardinality(ReturnedPaths)

\* C3 amended: one entry for every note other than the focus whose snapshot
\* is available and whose score is greater than 0; a note scoring 0 is left
\* out by computeRelatedNotes itself.
C3_PositiveCandidatesReturned ==
    FocusScored =>
        \A f \in FocusFiles :
            /\ ReturnedPaths =
                 {FilePath(c) : c \in {d \in vault \ {f} :
                                        metadataCache[d].avail /\ WeightedSum(f, d) > 0}}
            /\ Len(related) = Cardinality(ReturnedPaths)

\* under the default weights one available candidate is returned and
\* another, scoring 0, is not
C3_Witness ==
    /\ FocusScored /\ settings = DEFAULT_SETTINGS
    /\ Len(related) = 1
    /\ \A c \in vault : metadataCache[c].avail
    /\ Cardinality(vault) = 3

\* C4: the score of every returned candidate is
\* w_tag*prefixOverlap + w_title*titleSim + w_path*pathSim + w_link*linkScore,
\* prefixOverlap counting the candidate's prefix segments that are also the
\* focus's, titleSim being the similarity of the lowercased titles.
C4_ScoreIsWeightedSum ==
    FocusScored =>
        \A f \in FocusFiles : \A c \in vault \ {f} : \A i \in 1..Len(related) :
            related[i].notePath = FilePath(c) => related[i].score = WeightedSum(f, c)

\* a returned candidate to whose score all four factors contribute, the
\* titles differing in case
C4_Witness ==
    /\ FocusScored
    /\ \A key \in WeightKeys : settings[key] > 0
    /\ \E f \in FocusFiles : \E c \in vault \ {f} :
          /\ FilePath(c) \in ReturnedPaths
          /\ PrefixOverlap(f, c) >= 2 /\ PathSim(f, c) > 0 /\ LinkCount(f, c) = 2
          /\ TitleSim(f, c) > 0
    /\ \E f \in FocusFiles : \E c \in vault \ {f} :
          /\ FilePath(c) \in ReturnedPaths
          /\ c.basename # ToLowerCase(c.basename)
          /\ TitleSim(f, c) > 0

\* C5: an unresolved focus path or an unavailable focus snapshot gives the
\* empty list; a candidate whose snapshot is unavailable is not in the list,
\* and the list is the one the other notes alone would give.
C5_UnavailableSnapshots ==
    RelatedReturned =>
        /\ ~FocusScored => related = <<>>
        /\ \A c \in vault : ~metadataCache[c].avail => FilePath(c) \notin ReturnedPaths
        /\ related = RelatedNotesOf({c \in vault : metadataCache[c].avail},
                                    metadataCache, settings, lastCall.arg)

\* a candidate without snapshot is left out while another one is returned
C5_Witness ==
    /\ FocusScored /\ Len(related) = 1
    /\ \E c \in vault \ FocusFiles : ~metadataCache[c].avail

(***************************************************************************)
(* Properties of the string similarity (SpecSim)                           *)
(***************************************************************************)
\* C6: levenshteinSimilarity(a, b) lies in [0, 1] and is 1 exactly when a
\* and b are identical (so it is 1 for two empty strings).
C6_SimilarityRange ==
    simFwd # -1 =>
        /\ 0 <= simFwd /\ simFwd <= Scale
        /\ (simFwd = Scale) <=> (simA = simB)

\* the similarity of a string of two or more characters with itself
C6_Witness == simFwd = Scale /\ simA = simB /\ Len(simA) >= 2

\* C7: levenshteinSimilarity(a, b) = levenshteinSimilarity(b, a).
C7_SimilaritySymmetric ==
    (simFwd # -1 /\ simBwd # -1) => simFwd = simBwd

\* both calls made on different strings of different lengths, neither a
\* total mismatch
C7_Witness ==
    /\ simFwd # -1 /\ simBwd # -1
    /\ Len(simA) < Len(simB) /\ simFwd > 0

(***************************************************************************)
(* Properties of the tag prefix expander (SpecPrefix)                      *)
(***************************************************************************)
PrefixesReturned == lastCall.op = "gatherAllPrefixSegmentsForNote"

\* C8: gatherAllPrefixSegmentsForNote(T) is the union over the tags t of T of
\* every "/"-prefix of t, which expandTagIntoPrefixes lists root first;
\* {"x/y/x"} yields exactly {"x", "x/y", "x/y/x"}.
C8_PrefixClosure ==
    PrefixesReturned =>
        /\ segments = UNION {SlashPrefixes(t) : t \in noteTags}
        /\ \A t \in noteTags :
              LET prefixes == expandTagIntoPrefixes(t)
              IN /\ prefixes[Len(prefixes)] = t
                 /\ \A i \in 1..(Len(prefixes) - 1) : Len(prefixes[i]) < Len(prefixes[i + 1])
        /\ noteTags = {<<"x", "/", "y", "/", "x">>} =>
              segments = {<<"x">>, <<"x", "/", "y">>, <<"x", "/", "y", "/", "x">>}

\* two tags of three and two segments under the same root
C8_Witness ==
    /\ PrefixesReturned
    /\ noteTags = {<<"x", "/", "y", "/", "x">>, <<"x", "/", "x">>}
    /\ Cardinality(segments) = 4

(***************************************************************************)
(* Properties of the tag hierarchy builder (SpecNav)                       *)
(***************************************************************************)
HierarchyReturned == lastCall.op = "buildTagHierarchy"

TagsOf(f) == Range(gatherTagsFromCache(metadataCache[f]))

\* every document has a snapshot with at least one tag
AllTagged == \A f \in vault : metadataCache[f].avail /\ TagsOf(f) # {}

RootNodes(h) == {p \in DOMAIN h : Len(p) = 1}

RECURSIVE SumOver(_, _)
SumOver(S, count) ==
    IF S = {} THEN 0
    ELSE LET x == CHOOSE y \in S : TRUE IN count[x] + SumOver(S \ {x}, count)

\* the sum of getTotalFileCountForNode over the root nodes of the tree
RootTotal(h) ==
    SumOver(RootNodes(h), [node \in RootNodes(h) |-> getTotalFileCountForNode(h, node)])

TagCount(f) == Cardinality(TagsOf(f))

\* C9 as stated: when every document has at least one tag, the document
\* counts of the tree sum up to the corpus size.
C9_TotalIsCorpusSize ==
    (HierarchyReturned /\ AllTagged) => RootTotal(hierarchy) = Cardinality(vault)

\* C9 amended: when every document has at least one tag, the document counts
\* of the tree sum up to the number of (document, tag) pairs, which is the
\* corpus size exactly when every document has one tag.
C9_TotalIsTagPairs ==
    (HierarchyReturned /\ AllTagged) =>
        /\ RootTotal(hierarchy) = SumOver(vault, [f \in vault |-> TagCount(f)])
        /\ (RootTotal(hierarchy) = Cardinality(vault)) <=> (\A f \in vault : TagCount(f) = 1)

\* three tagged documents, one with a nested tag and one with two tags
C9_Witness ==
    /\ HierarchyReturned /\ AllTagged /\ Cardinality(vault) = 3
    /\ \E f \in vault : TagCount(f) = 1
    /\ \E f \in vault : TagCount(f) = 2
    /\ RootTotal(hierarchy) > Cardinality(vault)

\* C10: every document without tags is a direct document of the root node
\* "untagged" and of no other node.
C10_UntaggedBucket ==
    HierarchyReturned =>
        \A f \in vault : TagsOf(f) = {} =>
            /\ <<Untagged>> \in DOMAIN hierarchy
            /\ \A p \in DOMAIN hierarchy : (f \in hierarchy[p]) <=> (p = <<Untagged>>)

\* two documents without tags, one of them with a snapshot, beside a tagged one
C10_Witness ==
    /\ HierarchyReturned
    /\ Cardinality({f \in vault : TagsOf(f) = {}}) = 2
    /\ \E f \in vault : TagsOf(f) = {} /\ metadataCache[f].avail
    /\ \E f \in vault : TagsOf(f) # {}

(***************************************************************************)
(* The path factor and the link factor of the score (Spec)                 *)
(***************************************************************************)
\* the score computeRelatedNotes gave candidate c: its entry's score, 0 when
\* it has no entry
ScoreOf(c) ==
    IF FilePath(c) \in ReturnedPaths
    THEN (CHOOSE r \in Range(related) : r.notePath = FilePath(c)).score
    ELSE 0

\* the available candidates of focus f
CandidatesOf(f) == {c \in vault \ {f} : metadataCache[c].avail}

\* what the tag, title and link factors contribute to the score of c
ScoreWithoutPath(f, c) ==
    settings.weightTagSimilarity * PrefixOverlap(f, c) * Scale
    + settings.weightTitleSimilarity * TitleSim(f, c)
    + settings.weightLinkInterconnections * LinkCount(f, c) * Scale

\* what the tag, title and path factors contribute to the score of c
ScoreWithoutLinks(f, c) ==
    settings.weightTagSimilarity * PrefixOverlap(f, c) * Scale
    + settings.weightTitleSimilarity * TitleSim(f, c)
    + settings.weightPathSimilarity * PathSim(f, c)

\* C18: the path factor of a candidate's score is w_path times the string
\* similarity of the two full paths when neither the focus nor the candidate
\* is at the vault root; when either is at the root the path factor
\* contributes nothing to the score.
C18_PathFactor ==
    FocusScored =>
        \A f \in FocusFiles : \A c \in CandidatesOf(f) :
            ScoreOf(c) - ScoreWithoutPath(f, c) =
                IF AtRoot(f) \/ AtRoot(c) THEN 0
                ELSE settings.weightPathSimilarity
                     * levenshteinSimilarity(FilePath(f), FilePath(c))

\* a focus inside a folder, the path weight on, with one candidate at the
\* root and one in a folder whose path resembles the focus's
C18_Witness ==
    /\ FocusScored /\ settings.weightPathSimilarity > 0
    /\ \E f \in FocusFiles :
          /\ ~AtRoot(f)
          /\ \E c \in CandidatesOf(f) :
                AtRoot(c) /\ levenshteinSimilarity(FilePath(f), FilePath(c)) > 0
          /\ \E c \in CandidatesOf(f) :
                ~AtRoot(c) /\ ScoreOf(c) - ScoreWithoutPath(f, c) > 0

\* C19: the link factor of a candidate's score is w_link times 0, 1 or 2:
\* one if the candidate references the focus, one more if the focus
\* references the candidate; 2 exactly for a mutual reference, 0 exactly
\* when neither references the other.
C19_LinkFactor ==
    FocusScored =>
        \A f \in FocusFiles : \A c \in CandidatesOf(f) :
            \E n \in 0..2 :
                /\ ScoreOf(c) - ScoreWithoutLinks(f, c)
                     = settings.weightLinkInterconnections * n * Scale
                /\ n = (IF References(c, f) THEN 1 ELSE 0)
                       + (IF References(f, c) THEN 1 ELSE 0)
                /\ (n = 2) = (References(c, f) /\ References(f, c))
                /\ (n = 0) = (~References(c, f) /\ ~References(f, c))

\* the link weight on, and the focus has a candidate it is mutually linked
\* with, one linked one way only, the link factors being 2 and 1
C19_Witness ==
    /\ FocusScored /\ settings.weightLinkInterconnections = 1
    /\ \E f \in FocusFiles : \E c, d \in CandidatesOf(f) :
          /\ References(c, f) /\ References(f, c)
          /\ ScoreOf(c) - ScoreWithoutLinks(f, c) = 2 * Scale
          /\ References(d, f) # References(f, d)
          /\ ScoreOf(d) - ScoreWithoutLinks(f, d) = Scale

(***************************************************************************)
(* Placement of the documents in the tree, and errors (SpecNav)            *)
(***************************************************************************)
\* C17 as stated: no operation of the core raises an error, whatever the
\* corpus and whatever the tag strings.
C17_NoOperationRaises == raised = "none"

\* the keys of a node's path contain no "/"
PlainKeys(p) == \A i \in 1..Len(p) : "/" \notin Range(p[i])

FilterReturned == lastCall.op = "filterHierarchy"

\* the key of node p contains the query, letter case apart
KeyHasQuery(p) == Contains(ToLowerCase(p[Len(p)]), ToLowerCase(filterQuery))

\* the name of document d contains the query, letter case apart
NameHasQuery(d) == Contains(ToLowerCase(d.basename), ToLowerCase(filterQuery))

\* the nodes enclosing node p
Enclosing(p) == {SubSeq(p, 1, k) : k \in 1..(Len(p) - 1)}

Retained(p) == p \in DOMAIN filtered

\* C11: whatever the tree and the filter scope, filterHierarchy with the
\* empty query returns the tree unchanged.
C11_EmptyQueryIsNoOp ==
    (FilterReturned /\ filterQuery = <<>>) => filtered = hierarchy

\* the empty query on a tree with nested nodes, under scope FilesOnly
C11_Witness ==
    /\ FilterReturned /\ filterQuery = <<>> /\ filterMode = "FilesOnly"
    /\ \E p \in DOMAIN hierarchy : Len(p) = 2
    /\ Cardinality(DOMAIN hierarchy) >= 4

\* C12: under scope TagsOnly a node is retained exactly when its key contains
\* the query, the key of an enclosing node contains it, or one of its
\* children is retained; every retained node has all the direct documents it
\* has in the input tree, whatever their names.
C12_TagsOnlyIgnoresNames ==
    (FilterReturned /\ filterMode = "TagsOnly") =>
        /\ DOMAIN filtered \subseteq DOMAIN hierarchy
        /\ \A p \in DOMAIN hierarchy :
              Retained(p) <=>
                  \/ KeyHasQuery(p)
                  \/ \E q \in Enclosing(p) : KeyHasQuery(q)
                  \/ \E c \in ChildrenOf(hierarchy, p) : Retained(c)
        /\ \A p \in DOMAIN filtered : filtered[p] = hierarchy[p]

\* a query under TagsOnly that drops a node, keeps a node for its key with a
\* document whose name lacks the query, and keeps a node for its child only
C12_Witness ==
    /\ FilterReturned /\ filterMode = "TagsOnly" /\ filterQuery # <<>>
    /\ \E p \in DOMAIN hierarchy : ~Retained(p)
    /\ \E p \in DOMAIN filtered :
          KeyHasQuery(p) /\ \E d \in filtered[p] : ~NameHasQuery(d)
    /\ \E p \in DOMAIN filtered :
          ~KeyHasQuery(p) /\ \A q \in Enclosing(p) : ~KeyHasQuery(q)

\* the key of node p or of a node enclosing it contains the query
NameMatch(p) == KeyHasQuery(p) \/ \E q \in Enclosing(p) : KeyHasQuery(q)

\* the direct documents of node p in the input tree whose names contain the query
MatchingDocs(p) == {d \in hierarchy[p] : NameHasQuery(d)}

\* C21: under scope TagsAndFiles with a non-empty query, a node is retained
\* exactly when its key contains the query, the key of an enclosing node
\* contains it, it has a direct document whose name contains it, or one of
\* its children is retained; a node whose own or an enclosing key contains
\* the query has all its direct documents, any other retained node has only
\* the direct documents whose names contain the query.
C21_TagsAndFilesRetention ==
    (FilterReturned /\ filterMode = "TagsAndFiles" /\ filterQuery # <<>>) =>
        /\ DOMAIN filtered \subseteq DOMAIN hierarchy
        /\ \A p \in DOMAIN hierarchy :
              Retained(p) <=>
                  \/ NameMatch(p)
                  \/ MatchingDocs(p) # {}
                  \/ \E c \in ChildrenOf(hierarchy, p) : Retained(c)
        /\ \A p \in DOMAIN filtered :
              filtered[p] = IF NameMatch(p) THEN hierarchy[p] ELSE MatchingDocs(p)

\* a query under TagsAndFiles that drops a node, keeps a node for an
\* enclosing key only, with a document whose name lacks the query, keeps a
\* node for a document's name with only some of its documents, and keeps a
\* node for its child only
C21_Witness ==
    /\ FilterReturned /\ filterMode = "TagsAndFiles" /\ filterQuery # <<>>
    /\ \E p \in DOMAIN hierarchy : ~Retained(p)
    /\ \E p \in DOMAIN filtered :
          /\ ~KeyHasQuery(p) /\ NameMatch(p)
          /\ \E d \in filtered[p] : ~NameHasQuery(d)
    /\ \E p \in DOMAIN filtered :
          ~NameMatch(p) /\ filtered[p] # {} /\ filtered[p] # hierarchy[p]
    /\ \E p \in DOMAIN filtered : ~NameMatch(p) /\ hierarchy[p] = {}

\* node p has content matching the query: a direct document whose name
\* contains it, or a retained child
MatchingContent(p) ==
    MatchingDocs(p) # {} \/ \E c \in ChildrenOf(hierarchy, p) : Retained(c)

\* C22: under scope FilesOnly with a non-empty query, a node is retained
\* only if it has a direct document whose name contains the query or a
\* retained child, except that a node whose own or an enclosing key contains
\* the query and that has no such content is retained as a placeholder with
\* no documents and no children; every document of the result has a name
\* containing the query.
C22_FilesOnlyRetention ==
    (FilterReturned /\ filterMode = "FilesOnly" /\ filterQuery # <<>>) =>
        /\ DOMAIN filtered \subseteq DOMAIN hierarchy
        /\ \A p \in DOMAIN hierarchy :
              /\ Retained(p) <=> (MatchingContent(p) \/ NameMatch(p))
              /\ (Retained(p) /\ ~MatchingContent(p)) =>
                    (filtered[p] = {} /\ ChildrenOf(filtered, p) = {})
        /\ \A p \in DOMAIN filtered :
              /\ \A d \in filtered[p] : NameHasQuery(d)
              /\ filtered[p] = MatchingDocs(p)

\* a query under FilesOnly that drops a node, keeps a placeholder whose
\* documents all lack the query, keeps a node with only some of its
\* documents, and keeps a node for its child only
C22_Witness ==
    /\ FilterReturned /\ filterMode = "FilesOnly" /\ filterQuery # <<>>
    /\ \E p \in DOMAIN hierarchy : ~Retained(p)
    /\ \E p \in DOMAIN filtered :
          NameMatch(p) /\ ~MatchingContent(p) /\ hierarchy[p] # {}
    /\ \E p \in DOMAIN filtered : filtered[p] # {} /\ filtered[p] # hierarchy[p]
    /\ \E p \in DOMAIN filtered :
          ~NameMatch(p) /\ MatchingDocs(p) = {} /\ Retained(p)

\* C29: for every tree, non-empty query and scope, the tree filterHierarchy
\* returns is a sub-tree of its input: each of its nodes is a node of the
\* input at the same path, the documents of a node are direct documents of
\* that node in the input, and filtering the returned tree again with the
\* same query and scope returns an equal tree.
C29_FilterGivesSubTreeIdempotent ==
    (FilterReturned /\ filterQuery # <<>>) =>
        /\ DOMAIN filtered \subseteq DOMAIN hierarchy
        /\ \A p \in DOMAIN filtered :
              /\ filtered[p] \subseteq hierarchy[p]
              /\ \A q \in Enclosing(p) : q \in DOMAIN filtered
        /\ filterHierarchy(filtered, <<>>, filterQuery, filterMode, FALSE) = filtered

\* a filter that drops a node, leaves a node at depth two with fewer
\* documents than it has, and leaves a node without the documents it has
C29_Witness ==
    /\ FilterReturned /\ filterQuery # <<>>
    /\ DOMAIN filtered # DOMAIN hierarchy
    /\ \E p \in DOMAIN filtered :
          Len(p) = 2 /\ filtered[p] # {} /\ filtered[p] # hierarchy[p]
    /\ \E p \in DOMAIN filtered : filtered[p] = {} /\ hierarchy[p] # {}

Proj == <<"p", "r", "o", "j">>
Web == <<"w", "e", "b">>
Cli == <<"c", "l", "i">>

\* the vault is two documents, one tagged {"proj/web"}, one tagged {"proj/cli"}
ProjWebCliVault ==
    /\ Cardinality(vault) = 2
    /\ \E d \in vault : metadataCache[d].avail /\ TagsOf(d) = {Proj \o <<"/">> \o Web}
    /\ \E d \in vault : metadataCache[d].avail /\ TagsOf(d) = {Proj \o <<"/">> \o Cli}

\* C13 as stated: for two documents tagged {"proj/web"} and {"proj/cli"},
\* query "cli" under scope FilesOnly yields a tree in which "proj" is
\* retained and, of its children, "cli" is retained and "web" is not.
C13_OnlyCliChildRetained ==
    (FilterReturned /\ filterMode = "FilesOnly" /\ filterQuery = Cli /\ ProjWebCliVault) =>
        /\ Retained(<<Proj>>) /\ Retained(<<Proj, Cli>>)
        /\ ~Retained(<<Proj, Web>>)

\* C13 amended: scope FilesOnly goes by the documents' names. "proj" is
\* retained with no documents and its child "cli" is retained, with the
\* document tagged "proj/cli" if that document's name contains "cli" and as
\* an empty placeholder otherwise; the child "web" is retained exactly when
\* the name of the document tagged "proj/web" contains "cli", and then shows
\* that document.
C13_ProjCliByNames ==
    (FilterReturned /\ filterMode = "FilesOnly" /\ filterQuery = Cli /\ ProjWebCliVault) =>
        /\ Retained(<<Proj>>) /\ filtered[<<Proj>>] = {}
        /\ Retained(<<Proj, Cli>>)
        /\ filtered[<<Proj, Cli>>] = {d \in hierarchy[<<Proj, Cli>>] : NameHasQuery(d)}
        /\ Retained(<<Proj, Web>>) <=> \E d \in hierarchy[<<Proj, Web>>] : NameHasQuery(d)
        /\ Retained(<<Proj, Web>>) =>
              filtered[<<Proj, Web>>] = {d \in hierarchy[<<Proj, Web>>] : NameHasQuery(d)}
        /\ DOMAIN filtered \subseteq {<<Proj>>, <<Proj, Cli>>, <<Proj, Web>>}

\* the example's vault filtered by "cli" under FilesOnly, neither name having
\* "cli": "web" is dropped and "cli" is an empty placeholder
C13_Witness ==
    /\ FilterReturned /\ filterMode = "FilesOnly" /\ filterQuery = Cli /\ ProjWebCliVault
    /\ \A d \in vault : ~NameHasQuery(d)
    /\ DOMAIN filtered = {<<Proj>>, <<Proj, Cli>>}
    /\ filtered[<<Proj, Cli>>] = {}

(***************************************************************************)
(* Properties of the rendering (SpecRender)                                *)
(***************************************************************************)
Rendered == lastCall.op = "renderTagGroup"

\* node p of the tree has exactly one child and no direct documents
Merged(p) == Cardinality(ChildrenOf(hierarchy, p)) = 1 /\ hierarchy[p] = {}

\* the nodes that are shown as a group of their own
Shown == {p \in DOMAIN hierarchy : ~Merged(p)}

\* where the run of merged nodes ending right above p begins
RunStart(p) ==
    CHOOSE k \in 1..Len(p) :
        /\ \A j \in k..(Len(p) - 1) : Merged(SubSeq(p, 1, j))
        /\ k = 1 \/ ~Merged(SubSeq(p, 1, k - 1))

\* the label of the group of p: the keys of the run and its own, joined by "/"
Label(p) == Join(SubSeq(p, RunStart(p), Len(p)), "/")

\* the group of p: the labels of the shown nodes enclosing p, and its own
RECURSIVE GroupOf(_)
GroupOf(p) ==
    IF RunStart(p) = 1 THEN <<Label(p)>>
    ELSE Append(GroupOf(SubSeq(p, 1, RunStart(p) - 1)), Label(p))

Work == <<"w", "o", "r", "k">>
Acme == <<"a", "c", "m", "e">>
Beta == <<"b", "e", "t", "a">>

\* the vault is one document with exactly the given tags
LoneDocument(tags) ==
    Cardinality(vault) = 1 /\ \A d \in vault : metadataCache[d].avail /\ TagsOf(d) = tags

\* what is displayed is the tree with every node that has one child and no
\* documents merged into that child
DisplayIsCollapsedTree ==
    /\ DOMAIN display = {GroupOf(p) : p \in Shown}
    /\ \A p \in Shown :
          display[GroupOf(p)] =
              [tagPath |-> Join(p, "/"), name |-> Label(p), files |-> hierarchy[p]]
    /\ LoneDocument({Work \o <<"/">> \o Acme, Work \o <<"/">> \o Beta}) =>
          /\ DOMAIN display = {<<Work>>, <<Work, Acme>>, <<Work, Beta>>}
          /\ display[<<Work>>].name = Work
    /\ LoneDocument({Work \o <<"/">> \o Acme}) =>
          /\ DOMAIN display = {<<Work \o <<"/">> \o Acme>>}
          /\ display[<<Work \o <<"/">> \o Acme>>].files = vault

\* C14: renderTagGroup does not change the tree it is given, and shows a node
\* with exactly one child and no direct documents merged with that child
\* under the label "parent/child", repeatedly; every other node is shown as a
\* group of its own with its direct documents. Tags {"work/acme","work/beta"}
\* show a group "work" with two groups inside, a lone tag {"work/acme"} shows
\* the single group "work/acme".
C14_CollapseIsDisplayOnly ==
    [][(lastCall'.op = "renderTagGroup" /\ lastCall.op = "buildTagHierarchy") =>
          (hierarchy' = hierarchy /\ DisplayIsCollapsedTree')]_vars

\* a rendering with a group labelled by three merged keys next to a group
\* "work" that holds two groups and is not merged
C14_Witness ==
    /\ Rendered
    /\ \E g \in DOMAIN display : display[g].name = <<"x", "/", "y", "/", "z">>
    /\ {<<Work>>, <<Work, Acme>>, <<Work, Beta>>} \subseteq DOMAIN display

(***************************************************************************)
(* Properties of the Related Notes view (SpecView)                         *)
(***************************************************************************)
ListRendered == lastCall.op = "renderNoteList"

\* the result passes the text filter of the view: no filter text, or the
\* text is in its path or in one of its indexed tags, letter case apart
PassesTextFilter(r) ==
    \/ relatedFilterQuery = <<>>
    \/ Contains(ToLowerCase(r.notePath), relatedFilterQuery)
    \/ /\ r.notePath \in DOMAIN noteTagsMap
       /\ \E t \in Range(noteTagsMap[r.notePath]) :
             Contains(ToLowerCase(t), relatedFilterQuery)

\* where the path is in the list computeRelatedNotes returned
RankOf(path) == CHOOSE i \in 1..Len(related) : related[i].notePath = path

Applied == lastCall.op = "applyChanges"

\* the rows whose checkbox is checked, in the order of the rows
CheckedRows == SelectSeq(fileTagData, LAMBDA td : td.checkboxEl)

\* C16: whatever checkboxes were toggled, Select all / Deselect all clicked
\* and inputs edited before, Apply changes calls the update callback once,
\* with exactly the files whose checkbox is checked, each with the proposed
\* tags its row shows: its current tags and the tags to add, without the tags
\* to remove; when no checkbox is checked the callback is not called.
C16_CheckedFilesSubmitted ==
    Applied =>
        IF Len(CheckedRows) = 0 THEN submitted = <<>>
        ELSE /\ Len(submitted) = 1
             /\ Len(submitted[1]) = Len(CheckedRows)
             /\ \A i \in 1..Len(CheckedRows) :
                   /\ submitted[1][i].file = CheckedRows[i].file
                   /\ submitted[1][i].finalTags = CheckedRows[i].proposedEl
                   /\ Range(submitted[1][i].finalTags) =
                        (Range(CheckedRows[i].currentTags) \cup Range(tagsToAdd))
                            \ Range(tagsToRemove)

\* changes applied with one row unchecked and tags to add and to remove, a
\* submitted file getting tags other than the ones it has
C16_Witness ==
    /\ Applied /\ Len(submitted) = 1
    /\ Len(CheckedRows) = 2
    /\ tagsToAdd # <<>> /\ tagsToRemove # <<>>
    /\ \E i \in 1..2 :
          /\ Range(submitted[1][i].finalTags) # Range(CheckedRows[i].currentTags)
          /\ Len(submitted[1][i].finalTags) >= 2

(***************************************************************************)
(* Properties of the sorter (SpecSort)                                     *)
(***************************************************************************)
SortReturned == lastCall.op = "sortHierarchy"

\* the documents of node p and of the nodes below it
TotalDocuments(p) ==
    LET below == {q \in DOMAIN hierarchy : Len(q) >= Len(p) /\ SubSeq(q, 1, Len(p)) = p}
    IN SumOver(below, [q \in below |-> Cardinality(hierarchy[q])])

\* the keys of the children of node `at` in the returned tree are the keys
\* of its children, each once
SameSiblings(at) ==
    /\ Range(sortedTree[at]) = {p[Len(p)] : p \in ChildrenOf(hierarchy, at)}
    /\ Len(sortedTree[at]) = Cardinality(ChildrenOf(hierarchy, at))

\* sibling key a may stand before sibling key b under the mode, by the
\* case-insensitive compare of the keys
Alphabetical(a, b) == localeCompare(a, b) <= 0

ByDocumentCount(at, a, b) ==
    LET countA == TotalDocuments(Append(at, a))
        countB == TotalDocuments(Append(at, b))
    IN countA > countB \/ (countA = countB /\ Alphabetical(a, b))

\* C23: sortHierarchy orders the siblings of every level: in alphabetical
\* mode ascending by the case-insensitive compare of the keys, in
\* document-count mode by descending total document count (direct documents
\* plus those of the subtree), ties alphabetically; the order of the
\* returned sibling keys agrees with that comparator for every set of
\* sibling keys.
C23_SiblingsInComparatorOrder ==
    (SortReturned /\ lastCall.arg \in {"alphabetically-descending", "file-count-descending"}) =>
        \A at \in DOMAIN hierarchy \cup {<<>>} :
            /\ SameSiblings(at)
            /\ \A i, j \in 1..Len(sortedTree[at]) :
                  i < j =>
                      IF lastCall.arg = "alphabetically-descending"
                      THEN Alphabetical(sortedTree[at][i], sortedTree[at][j])
                      ELSE ByDocumentCount(at, sortedTree[at][i], sortedTree[at][j])

\* the timestamp node p is compared by under a time mode
TimeOf(mode, p) ==
    LET times == IF mode \in {"created-time-descending", "created-time-ascending"}
                 THEN {stat[d].ctime : d \in hierarchy[p]}
                 ELSE {stat[d].mtime : d \in hierarchy[p]}
    IN IF hierarchy[p] = {} THEN 0
       ELSE IF mode \in {"created-time-descending", "modified-time-descending"}
            THEN SetMax(times)
       ELSE SetMin(times)

ByTime(mode, at, a, b) ==
    LET timeA == TimeOf(mode, Append(at, a))
        timeB == TimeOf(mode, Append(at, b))
    IN \/ timeA = timeB /\ Alphabetical(a, b)
       \/ mode \in {"created-time-descending", "modified-time-descending"} /\ timeA > timeB
       \/ mode \in {"created-time-ascending", "modified-time-ascending"} /\ timeA < timeB

\* C24: in the creation-time and modification-time modes siblings are
\* ordered by the maximum (newest first) or minimum (oldest first) timestamp
\* of each node's direct documents only, a node without direct documents
\* counting as timestamp 0, and equal timestamps alphabetically by key.
C24_SiblingsInTimeOrder ==
    (SortReturned /\ lastCall.arg \notin {"alphabetically-descending", "file-count-descending"}) =>
        \A at \in DOMAIN hierarchy \cup {<<>>} :
            /\ SameSiblings(at)
            /\ \A i, j \in 1..Len(sortedTree[at]) :
                  i < j => ByTime(lastCall.arg, at, sortedTree[at][i], sortedTree[at][j])

(***************************************************************************)
(* The metadata extractor on its own                                       *)
(***************************************************************************)
\* the snapshots the extractor is run over: those of the scorer, and two
\* whose declared tag field holds tags written with the "#" marker
GatherSnapshots ==
    Snapshots \cup
    { Snap(<< <<"#", "z">> >>, FmArray(<<StrEntry(<<"#", "x">>)>>), <<>>),
      Snap(<<>>, FmString(<<"#", "x", ",", " ", "y">>), <<>>) }

\* gatherTagsFromCache(getFileCache(f)) for a file with a snapshot
GatherTagsFromCache(f) ==
    /\ f \in vault
    /\ metadataCache[f].avail
    /\ noteTags' = Range(gatherTagsFromCache(metadataCache[f]))
    /\ lastCall' = [op |-> "gatherTagsFromCache", arg |-> FilePath(f)]
    /\ UNCHANGED <<vault, metadataCache, settings, related, hierarchy, simVars, segments,
                   navVars, uiVars>>

NextGather ==
    \/ VaultChangeOver(AllFiles, GatherSnapshots)
    \/ \E f \in AllFiles : GatherTagsFromCache(f)

SpecGather == Init /\ [][NextGather]_vars

\* the extractor has returned for the file of path lastCall.arg
Gathered == lastCall.op = "gatherTagsFromCache"

GatheredCache == metadataCache[CHOOSE f \in AllFiles : FilePath(f) = lastCall.arg]

\* a tag without its leading marker character
StripMarker(t) == IF StartsWith(t, "#") THEN Substring(t, 1) ELSE t

\* the strings of the declared tag field: the string entries of a list, the
\* non-empty pieces of a delimited string
DeclaredTags(cache) ==
    IF cache.fmTags.kind = "array"
    THEN {e.val : e \in {x \in Range(cache.fmTags.arr) : x.isString}}
    ELSE IF cache.fmTags.kind = "string"
    THEN Range(SplitCommaSpace(cache.fmTags.str)) \ {<<>>}
    ELSE {}

\* C26: for every metadata snapshot the extractor returns a tag set in which
\* every tag has its leading "#" stripped, whether it came from an inline tag
\* marker or from the declared tag field; a tag field given as a delimited
\* string is split on commas and whitespace into non-empty tags, and
\* non-string entries of a tag list are dropped.
C26_MarkerStrippedFromEveryTag ==
    Gathered =>
        noteTags = {StripMarker(t) : t \in Range(GatheredCache.tags)}
                   \cup {StripMarker(t) : t \in DeclaredTags(GatheredCache)}

(***************************************************************************)
(* The per-document tag-set cache over a changing vault                    *)
(***************************************************************************)
NextIndex ==
    \/ VaultChange
    \/ BuildIndex

SpecIndex == Init /\ [][NextIndex]_vars

\* the tag set buildIndex stores for a path in the given vault, in insertion
\* order; nothing is stored for a path without file or without snapshot
IndexedTags(files, cache, path) ==
    IF \E f \in files : FilePath(f) = path /\ cache[f].avail
    THEN gatherTagsFromCache(cache[CHOOSE f \in files : FilePath(f) = path])
    ELSE <<>>

AllPaths == {FilePath(f) : f \in AllFiles}

\* C27: the per-document tag-set cache is entirely replaced on every rebuild:
\* after a buildIndex, getNoteTags returns for each path the tag set indexed
\* from the corpus as it is at that rebuild, and the empty set for every path
\* not in the corpus then, whatever an earlier build had stored; between
\* rebuilds the answers of getNoteTags do not change.
C27_IndexReplacedOnRebuild ==
    [][ IF lastCall'.op = "buildIndex"
        THEN \A path \in AllPaths :
                 getNoteTags(noteTagsMap', path) = IndexedTags(vault, metadataCache, path)
        ELSE \A path \in AllPaths :
                 getNoteTags(noteTagsMap', path) = getNoteTags(noteTagsMap, path) ]_vars

\* a rebuild has run over a corpus that holds a tagged document and lacks
\* another path: the first has its tags, the second the empty set
C27_Witness ==
    /\ lastCall.op = "buildIndex"
    /\ \E p \in AllPaths : getNoteTags(noteTagsMap, p) # <<>>
    /\ \E f \in AllFiles \ vault : getNoteTags(noteTagsMap, FilePath(f)) = <<>>
    /\ \A path \in AllPaths :
           getNoteTags(noteTagsMap, path) = IndexedTags(vault, metadataCache, path)

(***************************************************************************)
(* Properties of the debounced focus change                                *)
(***************************************************************************)
\* the step is the callback of a timer
TimerFired == Cardinality(pendingTimers') < Cardinality(pendingTimers)

\* the step is an active-leaf-change event
EventArrived ==
    activeView' # activeView \/ workspaceFile' # workspaceFile \/ quiet' < quiet

\* the path of the document that is active
ActivePath == IF workspaceFile = NoFile THEN <<>> ELSE FilePath(workspaceFile)

\* the step recomputes the related notes for the path
Recomputed(path) ==
    /\ activeFilePath' = path
    /\ related' = PluginComputeRelatedNotes(path)
    /\ lastCall' = [op |-> "renderNoteList", arg |-> path]

NotRecomputed == UNCHANGED <<lastCall, related, shown, tooltips>>

\* C25 as stated: the recomputation runs only once 150 ms have passed with
\* no further event, and a burst of events each less than 150 ms after the
\* previous one triggers exactly one recomputation, for the document that is
\* active when the timer fires.
C25_OneRecomputationPerBurst ==
    /\ [](Cardinality(pendingTimers) <= 1)
    /\ [][ /\ EventArrived => NotRecomputed
           /\ TimerFired => /\ quiet = DebounceMs
                            /\ pendingTimers' = {}
                            /\ Recomputed(ActivePath) ]_vars

\* C25 amended: at most one timer is pending, an event recomputes nothing,
\* and the timer of the last event of a burst fires only once 150 ms have
\* passed without event; it then recomputes once, for the file of the active
\* markdown view, if a markdown view is active and the Related Notes view is
\* open, and recomputes nothing otherwise (without markdown view
\* activeFilePath is left as it was).
C25_AtMostOneRecomputationPerBurst ==
    /\ [](Cardinality(pendingTimers) <= 1)
    /\ [][ /\ EventArrived => NotRecomputed /\ UNCHANGED activeFilePath
           /\ TimerFired =>
                 /\ quiet = DebounceMs
                 /\ pendingTimers' = {}
                 /\ IF activeView = "markdown" /\ viewOpen THEN Recomputed(ActivePath)
                    ELSE IF activeView = "markdown"
                         THEN NotRecomputed /\ activeFilePath' = ActivePath
                    ELSE NotRecomputed /\ UNCHANGED activeFilePath ]_vars

\* the last event came less than 150 ms after the one before it, its timer
\* has fired on the markdown view of a document, and the related notes shown
\* are those of that document
C25_Witness ==
    /\ timer # 0 /\ pendingTimers = {}
    /\ gap < DebounceMs /\ quiet = DebounceMs
    /\ activeView = "markdown" /\ viewOpen
    /\ activeFilePath = ActivePath
    /\ lastCall = [op |-> "renderNoteList", arg |-> ActivePath]
    /\ related # <<>>

\* C28: whenever the Related Notes view shows a score with its breakdown,
\* the four weighted components of the breakdown (tag, title, path, link)
\* sum to the total score shown, under every interleaving of focus changes,
\* timer firings and list refreshes.
C28_BreakdownSumsToScore ==
    viewOpen =>
        \A i \in 1..Len(tooltips) :
            tooltips[i].kind = "breakdown" =>
                tooltips[i].tag + tooltips[i].title + tooltips[i].path + tooltips[i].link
                    = shown.items[i].score

(***************************************************************************)
(* Properties of the tag navigation list                                   *)
(***************************************************************************)
\* the step is a render of the list asked for by one of the triggers
RenderedBy(triggers) == lastCall'.op = "renderList" /\ lastCall'.arg \in triggers

AllTriggers == {"open", "sort", "expand-all", "collapse-all", "scope", "filter", "refresh"}

\* a group with the full tag path was displayed and open before the step
WasOpen(tagPath) == \E g \in openGroups : display[g].tagPath = tagPath

\* a group with the full tag path was displayed before the step
WasDisplayed(tagPath) == \E g \in DOMAIN display : display[g].tagPath = tagPath

====
